---- MODULE Spec2Model ----
(***************************************************************************)
(* LegalBeacon: the per-firm data store (schema of part_007), the pages    *)
(* that read and write it (dashboard, case list, new case, case detail)    *)
(* and the pure helpers they use (party display names, pagination).        *)
(*                                                                         *)
(* Text values are sequences of one-character strings so that              *)
(* toLowerCase(), trim() and template literals are computed, not assumed.  *)
(* Identifiers (firm, user, party ids) and status values are compared for  *)
(* equality only and are plain strings or numbers.                         *)
(***************************************************************************)
EXTENDS Integers, Sequences, FiniteSets, TLC

VARIABLES
    users, parties, cases, security_interests, documents, deadlines, financials,
    clock, now,
    route, dashboard, casesPage, documentsPage, templatesPage, newCasePage, caseDetail,
    deletedCases, party, rendered,
    request, response,
    newDocumentPage, newTemplatePage, useTemplatePage,
    firms, authUsers, registerPage,
    assistant

dbVars == <<users, parties, cases, security_interests, documents, deadlines, financials>>
pageVars == <<route, dashboard, casesPage, documentsPage, templatesPage, newCasePage, caseDetail>>
nameVars == <<party, rendered>>
guardVars == <<request, response>>
\* state outside the store and the pages above
docVars == <<newDocumentPage, newTemplatePage, useTemplatePage>>
regVars == <<firms, authUsers, registerPage>>
aiVars == <<assistant>>
moreVars == <<guardVars, docVars, regVars, aiVars>>
sideVars == <<nameVars, moreVars>>
vars == <<dbVars, clock, now, pageVars, deletedCases, sideVars>>

----------------------------------------------------------------------------
(* JavaScript / SQL values *)

\* SQL NULL / JS null in a text column
NullText == <<"<null>">>
\* SQL NULL / JS null in an id column or a piece of React state
NullId == "<null>"

\* String(v) inside a template literal: null is rendered as the word null
JsString(v) == IF v = NullText THEN <<"n", "u", "l", "l">> ELSE v

\* JS truthiness of a nullable string
Truthy(v) == v # NullText /\ v # <<>>

\* a || b on nullable strings
JsOr(a, b) == IF Truthy(a) THEN a ELSE b

IsSpace(c) == c = " "

RECURSIVE TrimStart(_)
TrimStart(s) ==
    IF s = <<>> THEN <<>>
    ELSE IF IsSpace(Head(s)) THEN TrimStart(Tail(s)) ELSE s

RECURSIVE TrimEnd(_)
TrimEnd(s) ==
    IF s = <<>> THEN <<>>
    ELSE IF IsSpace(s[Len(s)]) THEN TrimEnd(SubSeq(s, 1, Len(s) - 1)) ELSE s

\* String.prototype.trim
Trim(s) == TrimEnd(TrimStart(s))

UpperToLower ==
    [c \in {"F", "O", "R", "E", "C", "L", "S", "U", "A", "B", "T", "D", "W", "I", "V"} |->
        CASE c = "F" -> "f" [] c = "O" -> "o" [] c = "R" -> "r" [] c = "E" -> "e"
          [] c = "C" -> "c" [] c = "L" -> "l" [] c = "S" -> "s" [] c = "U" -> "u"
          [] c = "A" -> "a" [] c = "B" -> "b" [] c = "T" -> "t" [] c = "D" -> "d"
          [] c = "W" -> "w" [] c = "I" -> "i" [] c = "V" -> "v"]

LowerChar(c) == IF c \in DOMAIN UpperToLower THEN UpperToLower[c] ELSE c

\* String.prototype.toLowerCase
toLowerCase(s) == [i \in 1..Len(s) |-> LowerChar(s[i])]

----------------------------------------------------------------------------
(* Party display names *)

UnknownClient == <<"U", "n", "k", "n", "o", "w", "n", " ", "C", "l", "i", "e", "n", "t">>
Unknown == <<"U", "n", "k", "n", "o", "w", "n">>

\* "no row" result of .single()
NoParty == [id |-> NullId]

\* dashboard: clientData.organization_name || `${first_name} ${last_name}`
DashboardClientName(clientData) ==
    IF clientData # NoParty
    THEN JsOr(clientData.organization_name,
              JsString(clientData.first_name) \o <<" ">> \o JsString(clientData.last_name))
    ELSE UnknownClient

\* case list: the same expression as the dashboard
CasesPageClientName(clientData) ==
    IF clientData # NoParty
    THEN JsOr(clientData.organization_name,
              JsString(clientData.first_name) \o <<" ">> \o JsString(clientData.last_name))
    ELSE UnknownClient

\* case detail
CaseDetail_getPartyDisplayName(p) ==
    IF p = NoParty THEN Unknown
    ELSE IF Truthy(p.organization_name) THEN p.organization_name
    ELSE Trim(JsOr(p.first_name, <<>>) \o <<" ">> \o JsOr(p.last_name, <<>>))

\* new case form (party is an element of the fetched list, never null)
NewCase_getPartyDisplayName(p) ==
    IF Truthy(p.organization_name) THEN p.organization_name
    ELSE Trim(JsOr(p.first_name, <<>>) \o <<" ">> \o JsOr(p.last_name, <<>>))

----------------------------------------------------------------------------
(* The data store: tables of part_007, row-level security, foreign keys *)

Firms == {"F1", "F2"}

\* authenticated principals; u1 and u3 are colleagues, u0 is authenticated but
\* has no users row
Principals == {"u1", "u2", "u3", "u0"}

\* users.select('firm_id').eq('id', user.id).single(): data?.firm_id
FirmOf(p) ==
    IF \E u \in users : u.id = p
    THEN (CHOOSE u \in users : u.id = p).firm_id
    ELSE NullId

\* a gate that lets every row through
RlsOpen(p, row) == TRUE

\* The tenant gate of every firm-scoped table: a row is visible to, and
\* writable by, the members of its firm only.
RlsVisible(p, row) == FirmOf(p) # NullId /\ row.firm_id = FirmOf(p)

\* supabase.from(table) as seen by principal p
From(p, table) == {r \in table : RlsVisible(p, r)}

\* .eq('id', id).single(): the row, or no row
Single(rows, none) == IF Cardinality(rows) = 1 THEN CHOOSE r \in rows : TRUE ELSE none

NoCase == [id |-> NullId]

\* cases.client_id / opposing_party_id REFERENCES parties(id)
CaseFkOk(row) ==
    /\ \E pt \in parties : pt.id = row.client_id
    /\ row.opposing_party_id = NullId \/ \E pt \in parties : pt.id = row.opposing_party_id

\* security_interests.case_id REFERENCES cases(id), lender/borrower REFERENCES parties(id)
SecurityInterestFkOk(row) ==
    /\ \E c \in cases : c.id = row.case_id
    /\ \E pt \in parties : pt.id = row.lender_id
    /\ \E pt \in parties : pt.id = row.borrower_id

\* no foreign key from the child tables to cases
ReferencedNever(caseId) == FALSE

\* child tables: case_id REFERENCES cases(id) with no ON DELETE action, so a
\* cases row that is still referenced cannot be deleted
Referenced(caseId) ==
    \/ \E r \in security_interests : r.case_id = caseId
    \/ \E r \in documents : r.case_id = caseId
    \/ \E r \in deadlines : r.case_id = caseId
    \/ \E r \in financials : r.case_id = caseId

\* rows of a set ordered by created_at, newest first: .order('created_at', {ascending: false})
RECURSIVE OrderByCreatedDesc(_)
OrderByCreatedDesc(rows) ==
    IF rows = {} THEN <<>>
    ELSE LET newest == CHOOSE r \in rows : \A q \in rows : q.created_at <= r.created_at
         IN <<newest>> \o OrderByCreatedDesc(rows \ {newest})

\* .limit(n)
Limit(seq, n) == SubSeq(seq, 1, IF Len(seq) < n THEN Len(seq) ELSE n)

\* .range(from, to): zero-based, both ends inclusive; beyond the end: no rows
Range(seq, from, to) ==
    IF from + 1 > Len(seq) THEN <<>>
    ELSE SubSeq(seq, from + 1, IF to + 1 > Len(seq) THEN Len(seq) ELSE to + 1)

SeqToSet(seq) == {seq[i] : i \in 1..Len(seq)}

----------------------------------------------------------------------------
(* Routing: a principal's browser shows one page at a time; mounting a page
   starts from the page's initial React state *)

Routes == {"none", "dashboard", "cases", "documents", "templates", "newCase", "caseDetail"}

ZeroStats ==
    [totalCases |-> 0, activeCases |-> 0, upcomingDeadlines |-> 0,
     totalParties |-> 0, totalDocuments |-> 0]

StatKeys == {"totalCases", "activeCases", "upcomingDeadlines", "totalParties", "totalDocuments"}

DashboardInit ==
    [pc |-> "mount", firmId |-> NullId, casesData |-> <<>>, pending |-> {},
     names |-> <<>>, done |-> <<>>, clientRows |-> {}, recentCases |-> <<>>,
     countsPending |-> {}, issuedAt |-> 0, counts |-> ZeroStats,
     stats |-> ZeroStats, isLoading |-> TRUE]

----------------------------------------------------------------------------
(* DashboardPage.fetchUserAndData *)

\* 7 * 24 * 60 * 60 * 1000 ms
SevenDays == 604800000

\* .limit(5) of the recent-cases query
RecentLimit == 5

\* cases of the firm, newest first, at most five
RecentCasesQuery(p, firmId) ==
    Limit(OrderByCreatedDesc({c \in From(p, cases) : c.firm_id = firmId}), RecentLimit)

\* parties.select(...).eq('id', client_id).single()
PartyById(p, id) == Single({pt \in From(p, parties) : pt.id = id}, NoParty)

\* a join that collects the results in their order of completion
RecentJoinByCompletion(casesData, names, done) ==
    [k \in 1..Len(done) |-> [row |-> casesData[done[k]], client_name |-> names[done[k]]]]

\* await Promise.all(casesData.map(async caseItem => ({...caseItem, client_name})))
\* the result array follows the input array, not the order of completion (done)
PromiseAllJoin(casesData, names, done) ==
    [i \in 1..Len(casesData) |-> [row |-> casesData[i], client_name |-> names[i]]]

\* the count queries with .gt in place of .gte on due_date
CountQueryExclusive(p, firmId, key, at) ==
    CASE key = "totalCases" ->
            Cardinality({c \in From(p, cases) : c.firm_id = firmId})
      [] key = "activeCases" ->
            Cardinality({c \in From(p, cases) : c.firm_id = firmId /\ c.status = "active"})
      [] key = "upcomingDeadlines" ->
            Cardinality({d \in From(p, deadlines) :
                            /\ d.firm_id = firmId
                            /\ d.due_date > at
                            /\ d.due_date <= at + SevenDays})
      [] key = "totalParties" ->
            Cardinality({pt \in From(p, parties) : pt.firm_id = firmId})
      [] key = "totalDocuments" ->
            Cardinality({d \in From(p, documents) : d.firm_id = firmId})

\* the count queries with the status filter of activeCases left out
CountQueryAnyStatus(p, firmId, key, at) ==
    CASE key = "totalCases" ->
            Cardinality({c \in From(p, cases) : c.firm_id = firmId})
      [] key = "activeCases" ->
            Cardinality({c \in From(p, cases) : c.firm_id = firmId})
      [] key = "upcomingDeadlines" ->
            Cardinality({d \in From(p, deadlines) :
                            /\ d.firm_id = firmId
                            /\ d.due_date >= at
                            /\ d.due_date <= at + SevenDays})
      [] key = "totalParties" ->
            Cardinality({pt \in From(p, parties) : pt.firm_id = firmId})
      [] key = "totalDocuments" ->
            Cardinality({d \in From(p, documents) : d.firm_id = firmId})

\* the five head-only exact count queries
CountQuery(p, firmId, key, at) ==
    CASE key = "totalCases" ->
            Cardinality({c \in From(p, cases) : c.firm_id = firmId})
      [] key = "activeCases" ->
            Cardinality({c \in From(p, cases) : c.firm_id = firmId /\ c.status = "active"})
      [] key = "upcomingDeadlines" ->
            Cardinality({d \in From(p, deadlines) :
                            /\ d.firm_id = firmId
                            /\ d.due_date >= at
                            /\ d.due_date <= at + SevenDays})
      [] key = "totalParties" ->
            Cardinality({pt \in From(p, parties) : pt.firm_id = firmId})
      [] key = "totalDocuments" ->
            Cardinality({d \in From(p, documents) : d.firm_id = firmId})

\* getUser(), then the users lookup; without a firm_id nothing else is fetched
DashFetchUser(p) ==
    /\ route[p] = "dashboard"
    /\ dashboard[p].pc = "mount"
    /\ dashboard' = [dashboard EXCEPT ![p] =
            IF FirmOf(p) # NullId
            THEN [@ EXCEPT !.pc = "recent", !.firmId = FirmOf(p)]
            ELSE [@ EXCEPT !.pc = "done", !.isLoading = FALSE]]
    /\ UNCHANGED <<dbVars, clock, now, route, casesPage, documentsPage, templatesPage,
                   newCasePage, caseDetail, deletedCases, sideVars>>

\* the recent-cases query returns; one client lookup per case is started
DashFetchRecent(p) ==
    /\ route[p] = "dashboard"
    /\ dashboard[p].pc = "recent"
    /\ LET data == RecentCasesQuery(p, dashboard[p].firmId)
       IN dashboard' = [dashboard EXCEPT ![p] =
            [@ EXCEPT !.pc = "names", !.casesData = data,
                      !.pending = 1..Len(data),
                      !.names = [i \in 1..Len(data) |-> NullText],
                      !.clientRows = {},
                      !.done = <<>>]]
    /\ UNCHANGED <<dbVars, clock, now, route, casesPage, documentsPage, templatesPage,
                   newCasePage, caseDetail, deletedCases, sideVars>>

\* one of the concurrent client lookups completes
DashLookupDone(p, i) ==
    /\ route[p] = "dashboard"
    /\ dashboard[p].pc = "names"
    /\ i \in dashboard[p].pending
    /\ LET clientData == PartyById(p, dashboard[p].casesData[i].client_id)
       IN dashboard' = [dashboard EXCEPT ![p] =
            [@ EXCEPT !.pending = @ \ {i},
                      !.names[i] = DashboardClientName(clientData),
                      !.clientRows = @ \cup ({clientData} \ {NoParty}),
                      !.done = Append(@, i)]]
    /\ UNCHANGED <<dbVars, clock, now, route, casesPage, documentsPage, templatesPage,
                   newCasePage, caseDetail, deletedCases, sideVars>>

\* Promise.all resolves: setRecentCases, then the five count queries are issued
DashJoin(p) ==
    /\ route[p] = "dashboard"
    /\ dashboard[p].pc = "names"
    /\ dashboard[p].pending = {}
    /\ dashboard' = [dashboard EXCEPT ![p] =
            [@ EXCEPT !.pc = "stats",
                      !.recentCases = PromiseAllJoin(dashboard[p].casesData,
                                                      dashboard[p].names, dashboard[p].done),
                      !.countsPending = StatKeys,
                      !.issuedAt = now]]
    /\ UNCHANGED <<dbVars, clock, now, route, casesPage, documentsPage, templatesPage,
                   newCasePage, caseDetail, deletedCases, sideVars>>

\* one of the five concurrent count queries completes (count || 0)
DashCountDone(p, key) ==
    /\ route[p] = "dashboard"
    /\ dashboard[p].pc = "stats"
    /\ key \in dashboard[p].countsPending
    /\ dashboard' = [dashboard EXCEPT ![p] =
            [@ EXCEPT !.countsPending = @ \ {key},
                      !.counts[key] = CountQuery(p, dashboard[p].firmId, key, dashboard[p].issuedAt)]]
    /\ UNCHANGED <<dbVars, clock, now, route, casesPage, documentsPage, templatesPage,
                   newCasePage, caseDetail, deletedCases, sideVars>>

\* setStats, setIsLoading(false)
DashSetStats(p) ==
    /\ route[p] = "dashboard"
    /\ dashboard[p].pc = "stats"
    /\ dashboard[p].countsPending = {}
    /\ dashboard' = [dashboard EXCEPT ![p] =
            [@ EXCEPT !.pc = "done", !.stats = dashboard[p].counts, !.isLoading = FALSE]]
    /\ UNCHANGED <<dbVars, clock, now, route, casesPage, documentsPage, templatesPage,
                   newCasePage, caseDetail, deletedCases, sideVars>>

----------------------------------------------------------------------------
(* CasesPage: firm resolution, filters, pagination *)

\* const itemsPerPage = 10
itemsPerPage == 10

\* hay ILIKE %needle%
Contains(hay, needle) ==
    \E k \in 1..(Len(hay) - Len(needle) + 1) : SubSeq(hay, k, k + Len(needle) - 1) = needle

ILike(hay, needle) == Contains(toLowerCase(hay), toLowerCase(needle))

\* Math.ceil(n / d) for n >= 0
Ceil(n, d) == (n + d - 1) \div d

CasesPageInit ==
    [pc |-> "mount", firmId |-> NullId, searchTerm |-> <<>>, statusFilter |-> "all",
     typeFilter |-> <<"a", "l", "l">>, currentPage |-> 1, totalPages |-> 1, count |-> 0,
     matched |-> 0, casesData |-> <<>>, clientRows |-> {}, cases |-> <<>>, isLoading |-> TRUE]

all == <<"a", "l", "l">>

\* the query fetchCases builds: firm, search term, status and type filters
CasesMatching(p, st) ==
    {c \in From(p, cases) :
        /\ c.firm_id = st.firmId
        /\ st.searchTerm # <<>> =>
              ILike(c.title, st.searchTerm) \/ ILike(c.case_number, st.searchTerm)
        /\ st.statusFilter # "all" => c.status = st.statusFilter
        /\ st.typeFilter # all => c.case_type = st.typeFilter}

\* a range that starts one page too far
CasesPageRowsOffByOne(ordered, currentPage) ==
    Range(ordered, currentPage * itemsPerPage, currentPage * itemsPerPage + itemsPerPage - 1)

\* from = (currentPage - 1) * itemsPerPage; to = from + itemsPerPage - 1; query.range(from, to)
CasesPageRows(ordered, currentPage) ==
    Range(ordered, (currentPage - 1) * itemsPerPage,
                   (currentPage - 1) * itemsPerPage + itemsPerPage - 1)

casesOthers == <<dbVars, clock, now, route, dashboard, documentsPage, templatesPage,
                 newCasePage, caseDetail, deletedCases, sideVars>>

\* first effect: resolve firmId; the second effect then runs fetchCases when it is set
CasesFetchFirmId(p) ==
    /\ route[p] = "cases"
    /\ casesPage[p].pc = "mount"
    /\ casesPage' = [casesPage EXCEPT ![p] =
            IF FirmOf(p) # NullId
            THEN [@ EXCEPT !.pc = "count", !.firmId = FirmOf(p), !.isLoading = TRUE]
            ELSE [@ EXCEPT !.pc = "idle"]]
    /\ UNCHANGED casesOthers

\* const { count } = await query.select('id', { count: 'exact', head: true })
CasesCount(p) ==
    /\ route[p] = "cases"
    /\ casesPage[p].pc = "count"
    /\ casesPage' = [casesPage EXCEPT ![p] =
            [@ EXCEPT !.pc = "page",
                      !.count = Cardinality(CasesMatching(p, casesPage[p]))]]
    /\ UNCHANGED casesOthers

\* await query.range(from, to); setTotalPages(Math.ceil((count || 0) / itemsPerPage))
\* (matched: the number of rows the query matches when the page is read)
CasesRange(p) ==
    /\ route[p] = "cases"
    /\ casesPage[p].pc = "page"
    /\ casesPage' = [casesPage EXCEPT ![p] =
            [@ EXCEPT !.pc = "names",
                      !.matched = Cardinality(CasesMatching(p, casesPage[p])),
                      !.casesData = CasesPageRows(
                            OrderByCreatedDesc(CasesMatching(p, casesPage[p])),
                            casesPage[p].currentPage),
                      !.totalPages = Ceil(casesPage[p].count, itemsPerPage)]]
    /\ UNCHANGED casesOthers

\* the client lookups of Promise.all have all returned; setCases; finally setIsLoading(false)
CasesNames(p) ==
    /\ route[p] = "cases"
    /\ casesPage[p].pc = "names"
    /\ LET data == casesPage[p].casesData
       IN casesPage' = [casesPage EXCEPT ![p] =
            [@ EXCEPT !.pc = "idle", !.isLoading = FALSE,
                      !.clientRows =
                            {PartyById(p, data[i].client_id) : i \in 1..Len(data)} \ {NoParty},
                      !.cases = [i \in 1..Len(data) |->
                            [row |-> data[i],
                             client_name |->
                                CasesPageClientName(PartyById(p, data[i].client_id))]]]]
    /\ UNCHANGED casesOthers

\* a changed dependency re-runs the effect: fetchCases when firmId is set
Refetch(st) ==
    IF st.firmId # NullId THEN [st EXCEPT !.pc = "count", !.isLoading = TRUE] ELSE st

\* the search box and the two selects stay on screen; the model follows one
\* fetch at a time
SetSearchTerm(p, term) ==
    /\ route[p] = "cases"
    /\ casesPage[p].pc = "idle"
    /\ term # casesPage[p].searchTerm
    /\ casesPage' = [casesPage EXCEPT ![p] = Refetch([@ EXCEPT !.searchTerm = term])]
    /\ UNCHANGED casesOthers

SetStatusFilter(p, v) ==
    /\ route[p] = "cases"
    /\ casesPage[p].pc = "idle"
    /\ v # casesPage[p].statusFilter
    /\ casesPage' = [casesPage EXCEPT ![p] = Refetch([@ EXCEPT !.statusFilter = v])]
    /\ UNCHANGED casesOthers

SetTypeFilter(p, v) ==
    /\ route[p] = "cases"
    /\ casesPage[p].pc = "idle"
    /\ v # casesPage[p].typeFilter
    /\ casesPage' = [casesPage EXCEPT ![p] = Refetch([@ EXCEPT !.typeFilter = v])]
    /\ UNCHANGED casesOthers

\* the pagination bar is rendered when not loading, cases.length > 0 and totalPages > 1;
\* buttons: previous (disabled on page 1), 1..totalPages, next (disabled on the last page)
handlePageChange(p, page) ==
    /\ route[p] = "cases"
    /\ casesPage[p].pc = "idle"
    /\ ~casesPage[p].isLoading
    /\ Len(casesPage[p].cases) > 0
    /\ casesPage[p].totalPages > 1
    /\ \/ page \in 1..casesPage[p].totalPages
       \/ page = casesPage[p].currentPage - 1 /\ casesPage[p].currentPage # 1
       \/ page = casesPage[p].currentPage + 1
            /\ casesPage[p].currentPage # casesPage[p].totalPages
    /\ page # casesPage[p].currentPage
    /\ casesPage' = [casesPage EXCEPT ![p] = Refetch([@ EXCEPT !.currentPage = page])]
    /\ UNCHANGED casesOthers

----------------------------------------------------------------------------
(* NewCasePage: firm resolution, party lists, onSubmit *)

foreclosure == <<"f", "o", "r", "e", "c", "l", "o", "s", "u", "r", "e">>
Foreclosure == <<"F", "o", "r", "e", "c", "l", "o", "s", "u", "r", "e">>
FORECLOSURE == <<"F", "O", "R", "E", "C", "L", "O", "S", "U", "R", "E">>
civilLitigation == <<"c", "i", "v", "i", "l">>

Mortgage == "Mortgage"
PrimaryMortgage == "Primary mortgage on property"

NewCasePageInit ==
    [pc |-> "mount", firmId |-> NullId, clients |-> {}, opposingParties |-> {},
     isLoading |-> FALSE, data |-> [case_type |-> <<>>], newCase |-> NoCase,
     outcome |-> "none"]

CaseDetailInit(caseId) ==
    [pc |-> "mount", caseId |-> caseId, caseData |-> NoCase, client |-> NoParty,
     opposingParty |-> NoParty, securityInterests |-> {}, documents |-> {},
     deadlines |-> {}, financials |-> {}, isLoading |-> TRUE,
     pendingDeletes |-> {}, failedDeletes |-> {}, outcome |-> "none"]

DocumentsPageInit ==
    [pc |-> "mount", firmId |-> NullId, cases |-> {}, currentPage |-> 1, totalPages |-> 1,
     count |-> 0, matched |-> 0, documents |-> <<>>, isLoading |-> TRUE]

TemplatesPageInit ==
    [pc |-> "mount", firmId |-> NullId, templates |-> {}, isLoading |-> TRUE]

\* router.push / a link: the target page is mounted with its initial state
Mounted(p, r, caseId) ==
    /\ route' = [route EXCEPT ![p] = r]
    /\ dashboard' = [dashboard EXCEPT ![p] = DashboardInit]
    /\ casesPage' = [casesPage EXCEPT ![p] = CasesPageInit]
    /\ newCasePage' = [newCasePage EXCEPT ![p] = NewCasePageInit]
    /\ caseDetail' = [caseDetail EXCEPT ![p] = CaseDetailInit(caseId)]
    /\ documentsPage' = [documentsPage EXCEPT ![p] = DocumentsPageInit]
    /\ templatesPage' = [templatesPage EXCEPT ![p] = TemplatesPageInit]

newCaseOthers == <<clock, now, route, dashboard, casesPage, documentsPage, templatesPage,
                   caseDetail, deletedCases, sideVars>>

\* useEffect: fetchFirmId; with a firm_id, fetchParties and fetchUsers are started
NewCaseFetchFirmId(p) ==
    /\ route[p] = "newCase"
    /\ newCasePage[p].pc = "mount"
    /\ newCasePage' = [newCasePage EXCEPT ![p] =
            IF FirmOf(p) # NullId
            THEN [@ EXCEPT !.pc = "parties", !.firmId = FirmOf(p)]
            ELSE [@ EXCEPT !.pc = "idle"]]
    /\ UNCHANGED <<dbVars, newCaseOthers>>

\* fetchParties(firmId): clients (is_client) and opposing parties of the firm
NewCaseFetchParties(p) ==
    /\ route[p] = "newCase"
    /\ newCasePage[p].pc = "parties"
    /\ LET f == newCasePage[p].firmId
       IN newCasePage' = [newCasePage EXCEPT ![p] =
            [@ EXCEPT !.pc = "idle",
                      !.clients = {pt \in From(p, parties) : pt.firm_id = f /\ pt.is_client},
                      !.opposingParties =
                            {pt \in From(p, parties) : pt.firm_id = f /\ ~pt.is_client}]]
    /\ UNCHANGED <<dbVars, newCaseOthers>>

\* the row onSubmit inserts into cases (id and created_at are column defaults)
NewCaseRow(firmId, data, id, at) ==
    [id |-> id, firm_id |-> firmId, title |-> data.title, case_number |-> data.case_number,
     case_type |-> data.case_type, status |-> data.status, client_id |-> data.client_id,
     opposing_party_id |-> IF data.opposing_party_id = "" THEN NullId
                           ELSE data.opposing_party_id,
     closure_date |-> NullId,
     created_at |-> at]

\* if (data.case_type === 'foreclosure' && newCase)
NeedsSecurityInterest(data, newCase) ==
    data.case_type = foreclosure /\ newCase # NoCase

\* a placeholder whose borrower is the client whether or not an opposing party was given
PlaceholderInterestClientOnly(firmId, data, newCase, id) ==
    [id |-> id, firm_id |-> firmId, case_id |-> newCase.id, type |-> Mortgage,
     description |-> PrimaryMortgage, lender_id |-> data.client_id,
     borrower_id |-> data.client_id, amount |-> 0]

\* the placeholder row inserted into security_interests
PlaceholderInterest(firmId, data, newCase, id) ==
    [id |-> id, firm_id |-> firmId, case_id |-> newCase.id, type |-> Mortgage,
     description |-> PrimaryMortgage, lender_id |-> data.client_id,
     borrower_id |-> IF data.opposing_party_id = "" THEN data.client_id
                     ELSE data.opposing_party_id,
     amount |-> 0]

\* onSubmit past its guard: the cases insert returns (ok = FALSE: the request
\* failed). An error is thrown to the catch block (alert); a case that needs no
\* placeholder is done and the browser goes to /cases/<id>.
SubmitCase(p, data, ok) ==
    LET row == NewCaseRow(newCasePage[p].firmId, data, clock, clock)
        inserted == ok /\ RlsVisible(p, row) /\ CaseFkOk(row)
    IN IF ~inserted
       THEN /\ newCasePage' = [newCasePage EXCEPT ![p] =
                    [@ EXCEPT !.outcome = "alert", !.isLoading = FALSE, !.data = data]]
            /\ UNCHANGED <<dbVars, newCaseOthers>>
       ELSE /\ cases' = cases \cup {row}
            /\ clock' = clock + 1
            /\ UNCHANGED <<users, parties, security_interests, documents, deadlines,
                           financials, now, deletedCases, sideVars>>
            /\ IF NeedsSecurityInterest(data, row)
               THEN /\ newCasePage' = [newCasePage EXCEPT ![p] =
                            [@ EXCEPT !.pc = "interest", !.isLoading = TRUE,
                                      !.data = data, !.newCase = row,
                                      !.outcome = "none"]]
                    /\ UNCHANGED <<route, dashboard, casesPage, documentsPage,
                                   templatesPage, caseDetail>>
               ELSE Mounted(p, "caseDetail", row.id)

\* onSubmit with the guard left out: the insert is requested without a firm
NewCaseSubmitUnguarded(p, data) ==
    /\ route[p] = "newCase"
    /\ newCasePage[p].pc = "idle"
    /\ newCasePage[p].firmId = NullId
    /\ SubmitCase(p, data, TRUE)

\* onSubmit without a firmId: if (!firmId) return, before anything is requested
NewCaseSubmitNoFirm(p, data) ==
    /\ route[p] = "newCase"
    /\ newCasePage[p].pc = "idle"
    /\ newCasePage[p].firmId = NullId
    /\ newCasePage' = [newCasePage EXCEPT ![p] = [@ EXCEPT !.outcome = "returned"]]
    /\ UNCHANGED <<dbVars, newCaseOthers>>

\* onSubmit with a firmId
NewCaseInsertCase(p, data, ok) ==
    /\ route[p] = "newCase"
    /\ newCasePage[p].pc = "idle"
    /\ newCasePage[p].firmId # NullId
    /\ SubmitCase(p, data, ok)

\* a creation that deletes the new case again when its placeholder was not stored
CasesAfterPlaceholderRollback(cs, newCase, inserted) ==
    IF inserted THEN cs ELSE cs \ {newCase}

\* the cases table after the placeholder insert has returned: onSubmit issues no
\* further write, whatever the insert answered
CasesAfterPlaceholder(cs, newCase, inserted) == cs

\* the placeholder insert returns; its result is not looked at; router.push
NewCaseInsertInterest(p, ok) ==
    /\ route[p] = "newCase"
    /\ newCasePage[p].pc = "interest"
    /\ LET st == newCasePage[p]
           row == PlaceholderInterest(st.firmId, st.data, st.newCase, clock)
           inserted == ok /\ RlsVisible(p, row) /\ SecurityInterestFkOk(row)
       IN /\ security_interests' =
                IF inserted THEN security_interests \cup {row} ELSE security_interests
          /\ clock' = IF inserted THEN clock + 1 ELSE clock
          /\ cases' = CasesAfterPlaceholder(cases, st.newCase, inserted)
          /\ Mounted(p, "caseDetail", st.newCase.id)
    /\ UNCHANGED <<users, parties, documents, deadlines, financials, now,
                   deletedCases, sideVars>>

----------------------------------------------------------------------------
(* CaseDetailPage: fetchCaseData, handleDeleteCase *)

ChildTables == {"security_interests", "documents", "deadlines", "financials"}

detailOthers == <<clock, now, deletedCases, sideVars>>

\* cases.select('*').eq('id', caseId).single() returns (ok = FALSE: the request
\* failed). No row is an error as well: if (caseError) throw caseError, before
\* setCaseData; the catch block calls router.push('/cases'), finally
\* setIsLoading(false)
DetailFetchCase(p, ok) ==
    /\ route[p] = "caseDetail"
    /\ caseDetail[p].pc = "mount"
    /\ LET found == Single({c \in From(p, cases) : c.id = caseDetail[p].caseId}, NoCase)
       IN caseDetail' = [caseDetail EXCEPT ![p] =
            IF ~ok \/ found = NoCase
            THEN [@ EXCEPT !.pc = "redirect", !.isLoading = FALSE]
            ELSE [@ EXCEPT !.pc = "related", !.caseData = found]]
    /\ UNCHANGED <<dbVars, detailOthers, route, dashboard, casesPage, documentsPage,
                   templatesPage, newCasePage>>

\* the navigation router.push('/cases') asked for takes place
DetailRedirect(p) ==
    /\ route[p] = "caseDetail"
    /\ caseDetail[p].pc = "redirect"
    /\ Mounted(p, "cases", 0)
    /\ UNCHANGED <<dbVars, detailOthers>>

\* security interests are fetched for foreclosure cases only (any letter casing)
DetailSecurityInterests(p, c) ==
    IF toLowerCase(c.case_type) = foreclosure
    THEN {r \in From(p, security_interests) : r.case_id = c.id}
    ELSE {}

\* related lookups in which a failed request is thrown to fetchCaseData's catch
DetailRelatedThrowing(st, rows, ok) ==
    IF ok THEN rows ELSE [st EXCEPT !.pc = "redirect", !.isLoading = FALSE]

\* the related lookups read { data } only: a failed request (ok = FALSE) leaves
\* null or an empty list and nothing is thrown
DetailRelated(st, rows, ok) ==
    IF ok THEN rows
    ELSE [st EXCEPT !.pc = "idle", !.isLoading = FALSE, !.client = NoParty,
                    !.opposingParty = NoParty, !.securityInterests = {},
                    !.documents = {}, !.deadlines = {}, !.financials = {}]

\* the six lookups of Promise.all have returned; finally setIsLoading(false)
DetailFetchRelated(p, ok) ==
    /\ route[p] = "caseDetail"
    /\ caseDetail[p].pc = "related"
    /\ LET c == caseDetail[p].caseData
       IN caseDetail' = [caseDetail EXCEPT ![p] = DetailRelated(@,
            [@ EXCEPT !.pc = "idle", !.isLoading = FALSE,
                      !.client = PartyById(p, c.client_id),
                      !.opposingParty =
                            IF c.opposing_party_id # NullId
                            THEN PartyById(p, c.opposing_party_id) ELSE NoParty,
                      !.securityInterests = DetailSecurityInterests(p, c),
                      !.documents = {r \in From(p, documents) : r.case_id = c.id},
                      !.deadlines = {r \in From(p, deadlines) : r.case_id = c.id},
                      !.financials = {r \in From(p, financials) : r.case_id = c.id}],
            ok)]
    /\ UNCHANGED <<dbVars, detailOthers, route, dashboard, casesPage, documentsPage,
                   templatesPage, newCasePage>>

\* handleDeleteCase, the user confirms: setIsLoading(true) and the four child
\* deletes are issued together
DetailDeleteConfirm(p) ==
    /\ route[p] = "caseDetail"
    /\ caseDetail[p].pc = "idle"
    /\ caseDetail[p].caseData # NoCase
    /\ caseDetail' = [caseDetail EXCEPT ![p] =
            [@ EXCEPT !.pc = "children", !.isLoading = TRUE,
                      !.pendingDeletes = ChildTables, !.failedDeletes = {},
                      !.outcome = "none"]]
    /\ UNCHANGED <<dbVars, detailOthers, route, dashboard, casesPage, documentsPage,
                   templatesPage, newCasePage>>

\* table.delete().eq('case_id', id) as issued by p
DeleteByCase(p, table, id) == {r \in table : ~(RlsVisible(p, r) /\ r.case_id = id)}

\* Promise.all is settled when the last child delete has returned; the builders
\* resolve to { error } and never reject, so the cases delete is issued next
AfterChildDelete(st, t, ok) ==
    [st EXCEPT !.pendingDeletes = @ \ {t},
               !.failedDeletes = IF ok THEN @ ELSE @ \cup {t},
               !.pc = IF st.pendingDeletes = {t} THEN "case" ELSE "children"]

\* one of the four child deletes returns (ok = FALSE: the request failed)
DetailDeleteChild(p, t, ok) ==
    /\ route[p] = "caseDetail"
    /\ caseDetail[p].pc = "children"
    /\ t \in caseDetail[p].pendingDeletes
    /\ LET id == caseDetail[p].caseData.id
       IN /\ security_interests' =
                IF ok /\ t = "security_interests"
                THEN DeleteByCase(p, security_interests, id) ELSE security_interests
          /\ documents' =
                IF ok /\ t = "documents" THEN DeleteByCase(p, documents, id) ELSE documents
          /\ deadlines' =
                IF ok /\ t = "deadlines" THEN DeleteByCase(p, deadlines, id) ELSE deadlines
          /\ financials' =
                IF ok /\ t = "financials" THEN DeleteByCase(p, financials, id) ELSE financials
    /\ caseDetail' = [caseDetail EXCEPT ![p] = AfterChildDelete(@, t, ok)]
    /\ UNCHANGED <<users, parties, cases, detailOthers, route, dashboard, casesPage,
                   documentsPage, templatesPage, newCasePage>>

\* the cases delete returns: a request failure or a foreign-key violation is an
\* error (alert, the page stays); otherwise router.push('/cases')
DetailDeleteCase(p, ok) ==
    /\ route[p] = "caseDetail"
    /\ caseDetail[p].pc = "case"
    /\ LET id == caseDetail[p].caseData.id
           target == {c \in From(p, cases) : c.id = id}
           error == ~ok \/ (target # {} /\ Referenced(id))
       IN IF error
          THEN /\ caseDetail' = [caseDetail EXCEPT ![p] =
                        [@ EXCEPT !.pc = "idle", !.isLoading = FALSE, !.outcome = "alert"]]
               /\ UNCHANGED <<cases, deletedCases, route, dashboard, casesPage,
                              documentsPage, templatesPage, newCasePage>>
          ELSE /\ cases' = cases \ target
               /\ deletedCases' = deletedCases \cup {id}
               /\ Mounted(p, "cases", 0)
    /\ UNCHANGED <<users, parties, security_interests, documents, deadlines, financials,
                   clock, now, sideVars>>

----------------------------------------------------------------------------
(* DocumentsPage and TemplatesPage *)

\* columns of the documents table
DocumentsColumns ==
    {"id", "created_at", "firm_id", "case_id", "name", "document_type", "file_path",
     "file_size", "uploaded_by", "version", "is_template", "related_party_id"}

\* columns fetchTemplates selects
TemplatesSelect ==
    {"id", "name", "document_type", "file_path", "file_size", "created_at", "uploaded_by",
     "description"}

listOthers == <<dbVars, clock, now, route, dashboard, casesPage, newCasePage, caseDetail,
                deletedCases, sideVars>>

\* fetchFirmId; with a firm_id: fetchCases(firmId) for the filter, and the effect
\* that runs fetchDocuments
DocsFetchFirmId(p) ==
    /\ route[p] = "documents"
    /\ documentsPage[p].pc = "mount"
    /\ documentsPage' = [documentsPage EXCEPT ![p] =
            IF FirmOf(p) # NullId
            THEN [@ EXCEPT !.pc = "count", !.firmId = FirmOf(p), !.isLoading = TRUE,
                           !.cases = {c \in From(p, cases) : c.firm_id = FirmOf(p)}]
            ELSE [@ EXCEPT !.pc = "idle"]]
    /\ UNCHANGED <<listOthers, templatesPage>>

DocumentsMatching(p, st) == {d \in From(p, documents) : d.firm_id = st.firmId}

\* the count query of fetchDocuments
DocsCount(p) ==
    /\ route[p] = "documents"
    /\ documentsPage[p].pc = "count"
    /\ documentsPage' = [documentsPage EXCEPT ![p] =
            [@ EXCEPT !.pc = "page",
                      !.count = Cardinality(DocumentsMatching(p, documentsPage[p]))]]
    /\ UNCHANGED <<listOthers, templatesPage>>

\* the page of rows, then per document the case title lookup by case_id
DocsRange(p) ==
    /\ route[p] = "documents"
    /\ documentsPage[p].pc = "page"
    /\ LET st == documentsPage[p]
           data == Range(OrderByCreatedDesc(DocumentsMatching(p, st)),
                         (st.currentPage - 1) * itemsPerPage,
                         (st.currentPage - 1) * itemsPerPage + itemsPerPage - 1)
       IN documentsPage' = [documentsPage EXCEPT ![p] =
            [@ EXCEPT !.pc = "idle", !.isLoading = FALSE,
                      !.totalPages = Ceil(st.count, itemsPerPage),
                      !.matched = Cardinality(DocumentsMatching(p, st)),
                      !.documents = [i \in 1..Len(data) |->
                            [row |-> data[i],
                             caseData |->
                                Single({c \in From(p, cases) : c.id = data[i].case_id},
                                       NoCase)]]]]
    /\ UNCHANGED <<listOthers, templatesPage>>

TemplatesFetchFirmId(p) ==
    /\ route[p] = "templates"
    /\ templatesPage[p].pc = "mount"
    /\ templatesPage' = [templatesPage EXCEPT ![p] =
            IF FirmOf(p) # NullId
            THEN [@ EXCEPT !.pc = "fetch", !.firmId = FirmOf(p), !.isLoading = TRUE]
            ELSE [@ EXCEPT !.pc = "idle"]]
    /\ UNCHANGED <<listOthers, documentsPage>>

\* fetchTemplates: a select of a column the table does not have is an error,
\* and then setTemplates is not reached; finally setIsLoading(false)
TemplatesFetch(p) ==
    /\ route[p] = "templates"
    /\ templatesPage[p].pc = "fetch"
    /\ LET st == templatesPage[p]
           rows == {d \in From(p, documents) : d.firm_id = st.firmId /\ d.is_template}
       IN templatesPage' = [templatesPage EXCEPT ![p] =
            [@ EXCEPT !.pc = "idle", !.isLoading = FALSE,
                      !.templates = IF TemplatesSelect \subseteq DocumentsColumns
                                    THEN rows ELSE st.templates]]
    /\ UNCHANGED <<listOthers, documentsPage>>

----------------------------------------------------------------------------
(* NewDocumentPage (upload), NewTemplatePage, UseTemplatePage. Their state is
   set when the page is opened. *)

\* case_id of template rows: '00000000-0000-0000-0000-000000000000'
TemplateCaseId == 0 - 1

NewDocumentPageInit(caseId) ==
    [pc |-> "mount", caseId |-> caseId, firmId |-> NullId, caseData |-> NoCase,
     parties |-> {}, isLoading |-> FALSE, error |-> "none", outcome |-> "none"]

NewTemplatePageInit == [pc |-> "mount", firmId |-> NullId, isLoading |-> FALSE, outcome |-> "none"]

UseTemplatePageInit(templateId) ==
    [pc |-> "mount", templateId |-> templateId, firmId |-> NullId, template |-> NoCase,
     isLoading |-> TRUE]

docOthers == <<clock, now, deletedCases, nameVars, guardVars, regVars, aiVars>>

\* fetchData: getUser and the users lookup; without a firm_id nothing more is done
UploadFetchFirmId(p) ==
    /\ route[p] = "newDocument"
    /\ newDocumentPage[p].pc = "mount"
    /\ newDocumentPage' = [newDocumentPage EXCEPT ![p] =
            IF FirmOf(p) # NullId
            THEN [@ EXCEPT !.pc = "case", !.firmId = FirmOf(p)]
            ELSE [@ EXCEPT !.pc = "idle"]]
    /\ UNCHANGED <<dbVars, pageVars, docOthers, newTemplatePage, useTemplatePage>>

\* a case lookup that is not scoped to the caller's firm
UploadCaseLookupAnyFirm(p, st) == Single({c \in cases : c.id = st.caseId}, NoCase)

\* cases.select('*').eq('id', caseId).eq('firm_id', userData.firm_id).single()
UploadCaseLookup(p, st) ==
    Single({c \in From(p, cases) : c.id = st.caseId /\ c.firm_id = st.firmId}, NoCase)

\* fetchData: the case lookup returns and setCaseData(caseData) runs. With no row
\* caseData is null and the next statement reads caseData.client_id: a TypeError
\* inside the async function, which nothing catches
UploadFetchCase(p) ==
    /\ route[p] = "newDocument"
    /\ newDocumentPage[p].pc = "case"
    /\ LET found == UploadCaseLookup(p, newDocumentPage[p])
       IN newDocumentPage' = [newDocumentPage EXCEPT ![p] =
            IF found = NoCase
            THEN [@ EXCEPT !.pc = "stopped", !.caseData = NoCase, !.error = "unhandled"]
            ELSE [@ EXCEPT !.pc = "parties", !.caseData = found]]
    /\ UNCHANGED <<dbVars, pageVars, docOthers, newTemplatePage, useTemplatePage>>

\* fetchData: the parties of the case; setParties(partiesData || [])
UploadFetchParties(p) ==
    /\ route[p] = "newDocument"
    /\ newDocumentPage[p].pc = "parties"
    /\ LET st == newDocumentPage[p]
       IN newDocumentPage' = [newDocumentPage EXCEPT ![p] =
            [@ EXCEPT !.pc = "idle",
                      !.parties = {pt \in From(p, parties) :
                                      /\ pt.firm_id = st.firmId
                                      /\ pt.id \in {st.caseData.client_id,
                                                    st.caseData.opposing_party_id}}]]
    /\ UNCHANGED <<dbVars, pageVars, docOthers, newTemplatePage, useTemplatePage>>

\* if (!caseData) the page renders the spinner titled "Loading..." and no form
UploadShowsLoading(st) == st.caseData = NoCase

\* the row onSubmit inserts into documents
UploadRow(firmId, caseId, id, at) ==
    [id |-> id, firm_id |-> firmId, case_id |-> caseId, is_template |-> FALSE,
     created_at |-> at]

\* a documents table without the foreign key to cases
DocumentFkNone(row) == TRUE

\* documents.case_id REFERENCES cases(id)
DocumentFkOk(row) == \E c \in cases : c.id = row.case_id

\* onSubmit of the upload form (ok = FALSE: the request failed): the insert,
\* then router.push(`/cases/${caseId}?tab=documents`), or the alert
UploadSubmit(p, ok) ==
    /\ route[p] = "newDocument"
    /\ newDocumentPage[p].pc = "idle"
    /\ ~UploadShowsLoading(newDocumentPage[p])
    /\ newDocumentPage[p].firmId # NullId
    /\ LET st == newDocumentPage[p]
           row == UploadRow(st.firmId, st.caseId, clock, clock)
           inserted == ok /\ RlsVisible(p, row) /\ DocumentFkOk(row)
       IN IF inserted
          THEN /\ documents' = documents \cup {row}
               /\ clock' = clock + 1
               /\ Mounted(p, "caseDetail", st.caseId)
               /\ UNCHANGED newDocumentPage
          ELSE /\ newDocumentPage' = [newDocumentPage EXCEPT ![p] =
                        [@ EXCEPT !.outcome = "alert", !.isLoading = FALSE]]
               /\ UNCHANGED <<documents, clock, pageVars>>
    /\ UNCHANGED <<users, parties, cases, security_interests, deadlines, financials,
                   now, deletedCases, nameVars, guardVars, regVars, aiVars,
                   newTemplatePage, useTemplatePage>>

\* NewTemplatePage: fetchFirmId
NewTemplateFetchFirmId(p) ==
    /\ route[p] = "newTemplate"
    /\ newTemplatePage[p].pc = "mount"
    /\ newTemplatePage' = [newTemplatePage EXCEPT ![p] =
            [@ EXCEPT !.pc = "idle", !.firmId = FirmOf(p)]]
    /\ UNCHANGED <<dbVars, pageVars, docOthers, newDocumentPage, useTemplatePage>>

\* columns of the row NewTemplatePage.onSubmit inserts
TemplateInsertColumns ==
    {"firm_id", "name", "document_type", "description", "file_path", "file_size",
     "uploaded_by", "is_template", "case_id"}

TemplateRow(firmId, id, at) ==
    [id |-> id, firm_id |-> firmId, case_id |-> TemplateCaseId, is_template |-> TRUE,
     created_at |-> at]

\* onSubmit of the template form: if (!firmId) return; the insert names a column
\* the documents table does not have and a case_id no cases row has, so the
\* store answers with an error: alert. Otherwise router.push('/documents/templates')
NewTemplateSubmit(p) ==
    /\ route[p] = "newTemplate"
    /\ newTemplatePage[p].pc = "idle"
    /\ LET st == newTemplatePage[p]
           row == TemplateRow(st.firmId, clock, clock)
           inserted == /\ TemplateInsertColumns \subseteq DocumentsColumns
                       /\ RlsVisible(p, row)
                       /\ DocumentFkOk(row)
       IN IF st.firmId = NullId
          THEN /\ newTemplatePage' = [newTemplatePage EXCEPT ![p] =
                        [@ EXCEPT !.outcome = "returned"]]
               /\ UNCHANGED <<documents, clock, pageVars>>
          ELSE IF inserted
          THEN /\ documents' = documents \cup {row}
               /\ clock' = clock + 1
               /\ Mounted(p, "templates", 0)
               /\ UNCHANGED newTemplatePage
          ELSE /\ newTemplatePage' = [newTemplatePage EXCEPT ![p] =
                        [@ EXCEPT !.outcome = "alert", !.isLoading = FALSE]]
               /\ UNCHANGED <<documents, clock, pageVars>>
    /\ UNCHANGED <<users, parties, cases, security_interests, deadlines, financials,
                   now, deletedCases, nameVars, guardVars, regVars, aiVars,
                   newDocumentPage, useTemplatePage>>

\* UseTemplatePage: fetchFirmId; with a firm_id, fetchTemplate and fetchCases
UseTemplateFetchFirmId(p) ==
    /\ route[p] = "useTemplate"
    /\ useTemplatePage[p].pc = "mount"
    /\ useTemplatePage' = [useTemplatePage EXCEPT ![p] =
            IF FirmOf(p) # NullId
            THEN [@ EXCEPT !.pc = "template", !.firmId = FirmOf(p)]
            ELSE [@ EXCEPT !.pc = "idle"]]
    /\ UNCHANGED <<dbVars, pageVars, docOthers, newDocumentPage, newTemplatePage>>

\* columns fetchTemplate selects
UseTemplateSelect == {"id", "name", "document_type", "description"}

\* fetchTemplate: an error (an unknown column, or no such template row) sends the
\* browser to /documents/templates; otherwise setTemplate. The generation form
\* submits only with a template set.
UseTemplateFetchTemplate(p) ==
    /\ route[p] = "useTemplate"
    /\ useTemplatePage[p].pc = "template"
    /\ LET st == useTemplatePage[p]
           found == Single({d \in From(p, documents) :
                                /\ d.id = st.templateId
                                /\ d.firm_id = st.firmId
                                /\ d.is_template}, NoCase)
           error == ~(UseTemplateSelect \subseteq DocumentsColumns) \/ found = NoCase
       IN IF error
          THEN /\ Mounted(p, "templates", 0)
               /\ UNCHANGED useTemplatePage
          ELSE /\ useTemplatePage' = [useTemplatePage EXCEPT ![p] =
                        [@ EXCEPT !.pc = "idle", !.template = found, !.isLoading = FALSE]]
               /\ UNCHANGED pageVars
    /\ UNCHANGED <<dbVars, docOthers, newDocumentPage, newTemplatePage>>

----------------------------------------------------------------------------
(* RegisterPage.onSubmit: signUp, the firms insert, the users insert *)

NoFirm == [id |-> NullId]

RegisterPageInit ==
    [pc |-> "idle", error |-> "none", isLoading |-> FALSE, email |-> NullId,
     authId |-> NullId, firmData |-> NoFirm, firmsBefore |-> {}, usersBefore |-> {}]

\* ids the auth service and the firms table hand out (uuid_generate_v4)
NewAuthIds == {"n1", "n2", "n3"}
NewFirmIds == {"F3", "F4", "F5"}

UnusedAuthIds == NewAuthIds \ {a.id : a \in authUsers}
UnusedFirmIds == NewFirmIds \ {f.id : f \in firms}

\* the id of a user object that stands for an address already signed up
ObscuredId == "obscured"

RegistrantEmails == {"ann@new.example", "bob@new.example", "u0@new.example", "u1@f1.example"}

regOthers == <<parties, cases, security_interests, documents, deadlines, financials,
               clock, now, pageVars, deletedCases, nameVars, guardVars, docVars, aiVars>>

\* onSubmit: setIsLoading(true), setError(null), supabase.auth.signUp. The answer
\* is an error (ok = FALSE, or the address is known and known = "error"), a user
\* object that stands for a known address, or the new auth user
RegisterSignUp(email, ok, known) ==
    /\ registerPage.pc = "idle"
    /\ UnusedAuthIds # {}
    /\ LET taken == \E a \in authUsers : a.email = email
           id == CHOOSE i \in UnusedAuthIds : TRUE
           st == [registerPage EXCEPT !.email = email, !.error = "none",
                                      !.firmsBefore = firms, !.usersBefore = users]
       IN IF ~ok \/ (taken /\ known = "error")
          THEN /\ registerPage' = [st EXCEPT !.error = "auth", !.isLoading = FALSE]
               /\ UNCHANGED authUsers
          ELSE IF taken
          THEN /\ registerPage' = [st EXCEPT !.pc = "firm", !.authId = ObscuredId,
                                            !.isLoading = TRUE]
               /\ UNCHANGED authUsers
          ELSE /\ registerPage' = [st EXCEPT !.pc = "firm", !.authId = id,
                                            !.isLoading = TRUE]
               /\ authUsers' = authUsers \cup {[id |-> id, email |-> email]}
    /\ UNCHANGED <<users, firms, regOthers>>

\* the row of step 2
RegisterFirmRow(st, id) == [id |-> id, email |-> st.email, subscription_tier |-> "basic"]

\* firms.insert(...).select(): firms.email is UNIQUE; an error, or no row back,
\* ends in setError
RegisterInsertFirm(ok) ==
    /\ registerPage.pc = "firm"
    /\ UnusedFirmIds # {}
    /\ LET row == RegisterFirmRow(registerPage, CHOOSE i \in UnusedFirmIds : TRUE)
           inserted == ok /\ \A f \in firms : f.email # row.email
       IN IF inserted
          THEN /\ firms' = firms \cup {row}
               /\ registerPage' = [registerPage EXCEPT !.pc = "user", !.firmData = row]
          ELSE /\ registerPage' = [registerPage EXCEPT !.pc = "idle", !.error = "firm",
                                                       !.isLoading = FALSE]
               /\ UNCHANGED firms
    /\ UNCHANGED <<users, authUsers, regOthers>>

\* a profile row that is not the firm's admin
RegisterUserRowAsMember(st) ==
    [id |-> st.authId, email |-> st.email, role |-> "attorney", firm_id |-> st.firmData.id]

\* the row of step 3
RegisterUserRow(st) ==
    [id |-> st.authId, email |-> st.email, role |-> "admin", firm_id |-> st.firmData.id]

\* users.insert(...): id is the primary key and REFERENCES auth.users(id), email is
\* UNIQUE, firm_id REFERENCES firms(id); then router.push('/register/confirmation'),
\* or setError
RegisterInsertUser(ok) ==
    /\ registerPage.pc = "user"
    /\ LET row == RegisterUserRow(registerPage)
           inserted == /\ ok
                       /\ \E a \in authUsers : a.id = row.id
                       /\ \E f \in firms : f.id = row.firm_id
                       /\ \A u \in users : u.id # row.id /\ u.email # row.email
       IN IF inserted
          THEN /\ users' = users \cup {row}
               /\ registerPage' = [registerPage EXCEPT !.pc = "confirmation",
                                                       !.isLoading = FALSE]
          ELSE /\ registerPage' = [registerPage EXCEPT !.pc = "idle", !.error = "user",
                                                       !.isLoading = FALSE]
               /\ UNCHANGED users
    /\ UNCHANGED <<firms, authUsers, regOthers>>

\* /register is opened again
RegisterOpen ==
    /\ registerPage.pc = "confirmation"
    /\ registerPage' = RegisterPageInit
    /\ UNCHANGED <<users, firms, authUsers, regOthers>>

----------------------------------------------------------------------------
(* The assistant: fetchAIResponse and handleSendMessage *)

\* String.prototype.includes
includes(s, sub) ==
    \E i \in 0..(Len(s) - Len(sub)) : SubSeq(s, i + 1, i + Len(sub)) = sub

draft == <<"d", "r", "a", "f", "t">>
write == <<"w", "r", "i", "t", "e">>
analyze == <<"a", "n", "a", "l", "y", "z", "e">>
review == <<"r", "e", "v", "i", "e", "w">>
summarize == <<"s", "u", "m", "m", "a", "r", "i", "z", "e">>
deadline == <<"d", "e", "a", "d", "l", "i", "n", "e">>
timeline == <<"t", "i", "m", "e", "l", "i", "n", "e">>

\* fetchAIResponse of the assistant page; the reply is named by its kind
fetchAIResponse(prompt, caseContext, documentContext) ==
    IF includes(toLowerCase(prompt), draft) \/ includes(toLowerCase(prompt), write)
    THEN "draft"
    ELSE IF includes(toLowerCase(prompt), analyze) \/ includes(toLowerCase(prompt), review)
    THEN "analysis"
    ELSE IF includes(toLowerCase(prompt), summarize)
    THEN "summary"
    ELSE IF includes(toLowerCase(prompt), deadline) \/ includes(toLowerCase(prompt), timeline)
    THEN "deadlines"
    ELSE "default"

\* fetchAIResponse of the second copy of the assistant
fetchAIResponseVariant(prompt, caseContext, documentContext) ==
    IF includes(toLowerCase(prompt), draft) THEN "draft"
    ELSE IF includes(toLowerCase(prompt), analyze) THEN "analysis"
    ELSE IF includes(toLowerCase(prompt), summarize) THEN "summary"
    ELSE IF includes(toLowerCase(prompt), deadline) THEN "deadlines"
    ELSE "default"

AssistantInit ==
    [pc |-> "idle", copy |-> "page", prompt |-> <<>>, caseContext |-> NullId,
     documentContext |-> NullId, reply |-> "none", isLoading |-> FALSE,
     inFlight |-> <<>>]

Prompts ==
    {<<>>,
     <<" ">>,
     <<"h", "i">>,
     draft,
     <<"D", "R", "A", "F", "T">>,
     <<"D", "r", "a", "f", "t", " ", "a", " ", "r", "e", "v", "i", "e", "w">>,
     write,
     <<"r", "e", "w", "r", "i", "t", "e">>,
     <<"W", "r", "i", "t", "e", " ", "a", " ", "r", "e", "v", "i", "e", "w">>,
     analyze,
     review,
     <<"R", "e", "v", "i", "e", "w">>,
     summarize,
     <<"s", "u", "m", "m", "a", "r", "i", "z", "e", " ", "r", "e", "v", "i", "e", "w">>,
     <<"s", "u", "m", "m", "a", "r", "i", "z", "e", " ", "d", "e", "a", "d", "l", "i", "n", "e">>,
     deadline,
     timeline,
     <<"T", "I", "M", "E", "L", "I", "N", "E">>,
     <<"d", "r", "a", "f">>}

CaseContexts == {NullId, "case 3"}
DocumentContexts == {NullId, "complaint"}
AssistantCopies == {"page", "variant"}

aiOthers == <<dbVars, clock, now, pageVars, deletedCases, nameVars, guardVars, docVars,
              regVars>>

\* calls of fetchAIResponse followed at once
MaxCalls == 2

\* handleSendMessage up to the await: if (!input.trim()) return; the user's
\* message is appended, setIsLoading(true), and fetchAIResponse is called with
\* the selected case and the document content
SendMessage(copy, input, caseContext, documentContext) ==
    /\ Trim(input) # <<>>
    /\ Len(assistant.inFlight) < MaxCalls
    /\ assistant' = [assistant EXCEPT
            !.pc = "pending",
            !.isLoading = TRUE,
            !.inFlight = Append(@, [copy |-> copy, prompt |-> input,
                                    caseContext |-> caseContext,
                                    documentContext |-> documentContext])]
    /\ UNCHANGED aiOthers

\* the send Button: onClick={handleSendMessage} disabled={isLoading}
ClickSend(copy, input, caseContext, documentContext) ==
    /\ ~assistant.isLoading
    /\ SendMessage(copy, input, caseContext, documentContext)

\* the Input's onKeyDown: Enter without Shift calls handleSendMessage
PressEnter(copy, input, caseContext, documentContext) ==
    SendMessage(copy, input, caseContext, documentContext)

\* the oldest call's timer of 1500 ms ends: its reply is appended to the
\* messages; finally setIsLoading(false)
ReplyArrives ==
    /\ assistant.inFlight # <<>>
    /\ LET a == Head(assistant.inFlight)
       IN assistant' = [pc |-> IF Tail(assistant.inFlight) = <<>> THEN "idle" ELSE "pending",
                        copy |-> a.copy, prompt |-> a.prompt,
                        caseContext |-> a.caseContext,
                        documentContext |-> a.documentContext,
                        reply |-> IF a.copy = "page"
                                  THEN fetchAIResponse(a.prompt, a.caseContext,
                                                       a.documentContext)
                                  ELSE fetchAIResponseVariant(a.prompt, a.caseContext,
                                                              a.documentContext),
                        isLoading |-> FALSE,
                        inFlight |-> Tail(assistant.inFlight)]
    /\ UNCHANGED aiOthers

----------------------------------------------------------------------------
(* middleware: the route guard in front of every page *)

\* String.prototype.startsWith
startsWith(s, prefix) == Len(s) >= Len(prefix) /\ SubSeq(s, 1, Len(prefix)) = prefix

\* '/dashboard', '/cases', '/clients', '/documents'
ProtectedPrefixes ==
    {<<"/", "d", "a", "s", "h", "b", "o", "a", "r", "d">>,
     <<"/", "c", "a", "s", "e", "s">>,
     <<"/", "c", "l", "i", "e", "n", "t", "s">>,
     <<"/", "d", "o", "c", "u", "m", "e", "n", "t", "s">>}

\* '/login', '/register', '/reset-password'
AuthPrefixes ==
    {<<"/", "l", "o", "g", "i", "n">>,
     <<"/", "r", "e", "g", "i", "s", "t", "e", "r">>,
     <<"/", "r", "e", "s", "e", "t", "-", "p", "a", "s", "s", "w", "o", "r", "d">>}

loginPath == <<"/", "l", "o", "g", "i", "n">>
dashboardPath == <<"/", "d", "a", "s", "h", "b", "o", "a", "r", "d">>

\* the alternatives of the negative lookahead of config.matcher; "." is the
\* regular expression's any-character
MatcherExclusions ==
    {<<"_", "n", "e", "x", "t", "/", "s", "t", "a", "t", "i", "c">>,
     <<"_", "n", "e", "x", "t", "/", "i", "m", "a", "g", "e">>,
     <<"a", "p", "i", "/", "a", "u", "t", "h", "/", "c", "a", "l", "l", "b", "a", "c", "k">>,
     <<"f", "a", "v", "i", "c", "o", "n", ".", "i", "c", "o">>,
     <<"p", "u", "b", "l", "i", "c", "/">>}

\* pattern matched at the start of s
LooksAhead(s, pattern) ==
    /\ Len(s) >= Len(pattern)
    /\ \A i \in 1..Len(pattern) : pattern[i] = "." \/ pattern[i] = s[i]

\* config.matcher: '/((?!_next/static|_next/image|api/auth/callback|favicon.ico|public/).*)'
matcher(path) ==
    /\ path # <<>> /\ Head(path) = "/"
    /\ \A pattern \in MatcherExclusions : ~LooksAhead(Tail(path), pattern)

\* a guard that takes every path for a protected route
isProtectedRouteEveryPath(path) == startsWith(path, <<"/">>)

isProtectedRoute(path) == \E prefix \in ProtectedPrefixes : startsWith(path, prefix)

isAuthRoute(path) == \E prefix \in AuthPrefixes : startsWith(path, prefix)

NoRequest == [path |-> <<>>, session |-> NullId, hops |-> 0]
NoResponse == [kind |-> "none", to |-> <<>>]
Pending == [kind |-> "pending", to |-> <<>>]

\* a guard that lets a signed-in user onto the login and registration views
middlewareProtectedOnly(req) ==
    IF req.session = NullId /\ isProtectedRoute(req.path)
    THEN [kind |-> "redirect", to |-> loginPath]
    ELSE [kind |-> "next", to |-> <<>>]

\* the response of middleware(req)
middleware(req) ==
    IF req.session = NullId /\ isProtectedRoute(req.path)
    THEN [kind |-> "redirect", to |-> loginPath]
    ELSE IF req.session # NullId /\ isAuthRoute(req.path)
    THEN [kind |-> "redirect", to |-> dashboardPath]
    ELSE [kind |-> "next", to |-> <<>>]

\* paths of the application's views and of the assets beside them
RequestPaths ==
    {
     \* /
     <<"/">>,
     \* /dashboard
     <<"/", "d", "a", "s", "h", "b", "o", "a", "r", "d">>,
     \* /cases
     <<"/", "c", "a", "s", "e", "s">>,
     \* /cases/new
     <<"/", "c", "a", "s", "e", "s", "/", "n", "e", "w">>,
     \* /cases/3
     <<"/", "c", "a", "s", "e", "s", "/", "3">>,
     \* /cases/3/documents/new
     <<"/", "c", "a", "s", "e", "s", "/", "3", "/", "d", "o", "c", "u", "m", "e", "n", "t", "s", "/", "n", "e", "w">>,
     \* /clients
     <<"/", "c", "l", "i", "e", "n", "t", "s">>,
     \* /documents
     <<"/", "d", "o", "c", "u", "m", "e", "n", "t", "s">>,
     \* /documents/templates
     <<"/", "d", "o", "c", "u", "m", "e", "n", "t", "s", "/", "t", "e", "m", "p", "l", "a", "t", "e", "s">>,
     \* /documents/templates/new
     <<"/", "d", "o", "c", "u", "m", "e", "n", "t", "s", "/", "t", "e", "m", "p", "l", "a", "t", "e", "s", "/", "n", "e", "w">>,
     \* /parties
     <<"/", "p", "a", "r", "t", "i", "e", "s">>,
     \* /parties/new
     <<"/", "p", "a", "r", "t", "i", "e", "s", "/", "n", "e", "w">>,
     \* /deadlines
     <<"/", "d", "e", "a", "d", "l", "i", "n", "e", "s">>,
     \* /financials
     <<"/", "f", "i", "n", "a", "n", "c", "i", "a", "l", "s">>,
     \* /settings
     <<"/", "s", "e", "t", "t", "i", "n", "g", "s">>,
     \* /ai-assistant
     <<"/", "a", "i", "-", "a", "s", "s", "i", "s", "t", "a", "n", "t">>,
     \* /login
     <<"/", "l", "o", "g", "i", "n">>,
     \* /register
     <<"/", "r", "e", "g", "i", "s", "t", "e", "r">>,
     \* /register/confirmation
     <<"/", "r", "e", "g", "i", "s", "t", "e", "r", "/", "c", "o", "n", "f", "i", "r", "m", "a", "t", "i", "o", "n">>,
     \* /reset-password
     <<"/", "r", "e", "s", "e", "t", "-", "p", "a", "s", "s", "w", "o", "r", "d">>,
     \* /terms
     <<"/", "t", "e", "r", "m", "s">>,
     \* /privacy
     <<"/", "p", "r", "i", "v", "a", "c", "y">>,
     \* /api/auth/callback
     <<"/", "a", "p", "i", "/", "a", "u", "t", "h", "/", "c", "a", "l", "l", "b", "a", "c", "k">>,
     \* /_next/static/a
     <<"/", "_", "n", "e", "x", "t", "/", "s", "t", "a", "t", "i", "c", "/", "a">>,
     \* /_next/image
     <<"/", "_", "n", "e", "x", "t", "/", "i", "m", "a", "g", "e">>,
     \* /favicon.ico
     <<"/", "f", "a", "v", "i", "c", "o", "n", ".", "i", "c", "o">>,
     \* /public/a
     <<"/", "p", "u", "b", "l", "i", "c", "/", "a">>}

\* the session cookie of a request: none, or a signed-in principal's
Sessions == {NullId} \cup Principals

guardOthers == <<dbVars, clock, now, pageVars, deletedCases, nameVars, docVars, regVars,
                aiVars>>

\* the browser requests a path
Request(path, session) ==
    /\ response.kind # "pending"
    /\ request' = [path |-> path, session |-> session, hops |-> 0]
    /\ response' = Pending
    /\ UNCHANGED guardOthers

\* a request the matcher selects runs through the middleware
MiddlewareRuns ==
    /\ response.kind = "pending"
    /\ matcher(request.path)
    /\ response' = middleware(request)
    /\ UNCHANGED <<request, guardOthers>>

\* a request the matcher does not select is served without the middleware
MiddlewareSkipped ==
    /\ response.kind = "pending"
    /\ ~matcher(request.path)
    /\ response' = [kind |-> "unguarded", to |-> <<>>]
    /\ UNCHANGED <<request, guardOthers>>

\* the browser follows a redirect with the same cookies
FollowRedirect ==
    /\ response.kind = "redirect"
    /\ request' = [request EXCEPT !.path = response.to, !.hops = @ + 1]
    /\ response' = Pending
    /\ UNCHANGED guardOthers

----------------------------------------------------------------------------
(* Store contents the runs start from *)

Now0 == 1000

Users0 ==
    {[id |-> "u1", firm_id |-> "F1", email |-> "u1@f1.example", role |-> "admin"],
     [id |-> "u2", firm_id |-> "F2", email |-> "u2@f2.example", role |-> "admin"],
     [id |-> "u3", firm_id |-> "F1", email |-> "u3@f1.example", role |-> "attorney"]}

Firms0 ==
    {[id |-> "F1", email |-> "u1@f1.example", subscription_tier |-> "basic"],
     [id |-> "F2", email |-> "u2@f2.example", subscription_tier |-> "basic"]}

\* auth.users: u0 signed up once and has neither a firm nor a users row
AuthUsers0 ==
    {[id |-> u.id, email |-> u.email] : u \in Users0}
        \cup {[id |-> "u0", email |-> "u0@new.example"]}

\* parties admitted by the valid_name check of the parties table
Parties0 ==
    {[id |-> "p1", firm_id |-> "F1", is_client |-> TRUE, first_name |-> <<"J">>,
      last_name |-> <<"R">>, organization_name |-> NullText],
     [id |-> "p2", firm_id |-> "F1", is_client |-> FALSE, first_name |-> NullText,
      last_name |-> NullText, organization_name |-> <<"A", "c">>],
     [id |-> "p3", firm_id |-> "F2", is_client |-> TRUE, first_name |-> <<"B">>,
      last_name |-> <<>>, organization_name |-> NullText]}

\* the i-th stored case: every fourth belongs to firm F2; creation times are a
\* permutation of the ids, so that id order is not creation order
StoredCase(i) ==
    [id |-> i,
     firm_id |-> IF i % 4 = 0 THEN "F2" ELSE "F1",
     title |-> IF i % 2 = 0 THEN <<"R", "o", "e">> ELSE <<"A", "b", "c">>,
     case_number |-> <<"F", "C">>,
     case_type |-> IF i % 3 = 0 THEN Foreclosure
                   ELSE IF i % 3 = 1 THEN foreclosure ELSE civilLitigation,
     status |-> IF i % 5 = 0 THEN "closed" ELSE IF i % 3 = 0 THEN "pending" ELSE "active",
     client_id |-> IF i % 4 = 0 THEN "p3" ELSE "p1",
     opposing_party_id |-> IF i % 4 = 0 \/ i % 2 = 0 THEN NullId ELSE "p2",
     closure_date |-> IF i % 5 = 0 THEN "2024-01-15" ELSE NullId,
     created_at |-> (i * 7) % 31]

StoredCases(n) == {StoredCase(i) : i \in 1..n}

\* due dates around the ends of the seven-day window, relative to Now0
DueOffset(k) ==
    CASE k = 1 -> 0
      [] k = 2 -> SevenDays
      [] k = 3 -> 0 - 1
      [] k = 4 -> SevenDays + 1
      [] k = 5 -> 1
      [] OTHER -> SevenDays - 1

StoredDeadlines(cs, m) ==
    {[id |-> 2000 + 10 * c.id + k, firm_id |-> c.firm_id, case_id |-> c.id,
      due_date |-> Now0 + DueOffset(k),
      status |-> IF k % 2 = 0 THEN "Completed" ELSE "Pending"] :
        c \in {c \in cs : c.id \in {3, 4}}, k \in 1..m}

StoredDocuments(cs) ==
    {[id |-> 3000 + c.id, firm_id |-> c.firm_id, case_id |-> c.id, is_template |-> FALSE,
      created_at |-> c.created_at] : c \in {c \in cs : c.id % 2 = 1 \/ c.id = 4}}

StoredFinancials(cs) ==
    {[id |-> 4000 + c.id, firm_id |-> c.firm_id, case_id |-> c.id] :
        c \in {c \in cs : c.id \in {3, 4}}}

StoredInterests(cs) ==
    {[id |-> 5000 + c.id, firm_id |-> c.firm_id, case_id |-> c.id, type |-> Mortgage,
      description |-> PrimaryMortgage, lender_id |-> c.client_id,
      borrower_id |-> c.client_id, amount |-> 0] :
        c \in {c \in cs : toLowerCase(c.case_type) = foreclosure}}

NoPartyUnderTest == [first_name |-> NullText, last_name |-> NullText,
                     organization_name |-> NullText]

NothingRendered == [site |-> "none", text |-> <<>>]

PagesInit ==
    /\ route = [p \in Principals |-> "none"]
    /\ dashboard = [p \in Principals |-> DashboardInit]
    /\ casesPage = [p \in Principals |-> CasesPageInit]
    /\ documentsPage = [p \in Principals |-> DocumentsPageInit]
    /\ templatesPage = [p \in Principals |-> TemplatesPageInit]
    /\ newCasePage = [p \in Principals |-> NewCasePageInit]
    /\ caseDetail = [p \in Principals |-> CaseDetailInit(0)]
    /\ deletedCases = {}
    /\ request = NoRequest
    /\ response = NoResponse
    /\ newDocumentPage = [p \in Principals |-> NewDocumentPageInit(0)]
    /\ newTemplatePage = [p \in Principals |-> NewTemplatePageInit]
    /\ useTemplatePage = [p \in Principals |-> UseTemplatePageInit(0)]
    /\ firms = Firms0
    /\ authUsers = AuthUsers0
    /\ registerPage = RegisterPageInit
    /\ assistant = AssistantInit

NamesIdle ==
    /\ party = NoPartyUnderTest
    /\ rendered = NothingRendered

----------------------------------------------------------------------------
(* Rendering a party name: the four places that do it *)

NameValues == {NullText, <<>>, <<"J">>, <<" ">>, <<"R", " ">>}
OrgValues == {NullText, <<>>, <<"A", "c">>}

\* CONSTRAINT valid_name
ValidName(pt) ==
    \/ pt.first_name # NullText /\ pt.last_name # NullText
    \/ pt.organization_name # NullText

AdmittedParties ==
    {pt \in [first_name : NameValues, last_name : NameValues, organization_name : OrgValues] :
        ValidName(pt)}

Render(site, text) ==
    /\ party # NoPartyUnderTest
    /\ rendered' = [site |-> site, text |-> text]
    /\ UNCHANGED <<dbVars, clock, now, pageVars, deletedCases, party, moreVars>>

RenderDashboard == Render("dashboard", DashboardClientName(party))
RenderCaseList == Render("cases", CasesPageClientName(party))
RenderCaseDetail == Render("caseDetail", CaseDetail_getPartyDisplayName(party))
RenderNewCase == Render("newCase", NewCase_getPartyDisplayName(party))

----------------------------------------------------------------------------
(* Navigation and the specifications *)

\* no write handler of p is between two of its requests
NoWriteInFlight(p) ==
    /\ newCasePage[p].pc # "interest"
    /\ caseDetail[p].pc \notin {"children", "case"}

\* a link or a typed URL; /cases/<id> accepts any id
Navigate(p, r, caseId) ==
    /\ NoWriteInFlight(p)
    /\ r # route[p] \/ r = "caseDetail"
    /\ Mounted(p, r, IF r = "caseDetail" THEN caseId ELSE 0)
    /\ UNCHANGED <<dbVars, clock, now, deletedCases, sideVars>>

\* Date.now() moves on
MaxTicks == 1

Tick ==
    /\ now < Now0 + MaxTicks
    /\ now' = now + 1
    /\ UNCHANGED <<dbVars, clock, pageVars, deletedCases, sideVars>>

\* values the new-case form can submit
CaseTypes == {foreclosure, Foreclosure, FORECLOSURE, civilLitigation}

FormData(p, types, statuses) ==
    [title : {<<"R", "o", "e">>}, case_number : {<<"F", "C">>}, case_type : types,
     status : statuses,
     client_id : IF newCasePage[p].firmId = NullId THEN {"p1"}
                 ELSE {pt.id : pt \in newCasePage[p].clients},
     opposing_party_id : {""} \cup {pt.id : pt \in newCasePage[p].opposingParties}]

\* rows inserted through the form in one run
MaxInserts == 3

\* values of the form and pages used by the specifications below
FormTypes == {foreclosure, civilLitigation}
FormStatuses == {"active", "closed"}
ListRoutes == {"cases", "documents"}
WriteRoutes == {"newCase", "caseDetail"}
FormRoutes == {"newTemplate", "newCase", "templates"}
KnownAnswers == {"error", "obscured"}
SeedIds == {3, 4}

DashboardNext(p) ==
    \/ DashFetchUser(p)
    \/ DashFetchRecent(p)
    \/ \E i \in 1..RecentLimit : DashLookupDone(p, i)
    \/ DashJoin(p)
    \/ \E key \in StatKeys : DashCountDone(p, key)
    \/ DashSetStats(p)

CasesPageNext(p) ==
    \/ CasesFetchFirmId(p)
    \/ CasesCount(p)
    \/ CasesRange(p)
    \/ CasesNames(p)

NewCaseLoad(p) ==
    \/ NewCaseFetchFirmId(p)
    \/ NewCaseFetchParties(p)

NewCaseSubmit(p, types, statuses, oks, inserts) ==
    \/ /\ clock < 100 + inserts
       /\ \E data \in FormData(p, types, statuses), ok \in oks :
            NewCaseInsertCase(p, data, ok)
    \/ \E ok \in oks : NewCaseInsertInterest(p, ok)

CaseDetailLoad(p, oks) ==
    \/ \E ok \in oks : DetailFetchCase(p, ok)
    \/ \E ok \in oks : DetailFetchRelated(p, ok)
    \/ DetailRedirect(p)

CaseDetailNext(p, oks) ==
    \/ CaseDetailLoad(p, {TRUE})
    \/ DetailDeleteConfirm(p)
    \/ \E t \in ChildTables, ok \in oks : DetailDeleteChild(p, t, ok)
    \/ \E ok \in oks : DetailDeleteCase(p, ok)

ListsNext(p) ==
    \/ DocsFetchFirmId(p)
    \/ DocsCount(p)
    \/ DocsRange(p)
    \/ TemplatesFetchFirmId(p)
    \/ TemplatesFetch(p)

\* one browser session at a time: a principal opens a page only while every
\* other principal's browser is closed
OthersClosed(p) == \A q \in Principals \ {p} : route[q] = "none"

Open(p, r, caseId) ==
    /\ OthersClosed(p)
    /\ r # "none"
    /\ Navigate(p, r, caseId)

Close(p) ==
    /\ route[p] # "none"
    /\ Navigate(p, "none", 0)

\* a link or a typed URL that enters or leaves /cases/<id>/documents/new,
\* /documents/templates/new or /documents/templates/<id>/use
OpenDocPage(p, r, id) ==
    /\ r # route[p]
    /\ NoWriteInFlight(p)
    /\ Mounted(p, r, 0)
    /\ newDocumentPage' = [newDocumentPage EXCEPT ![p] = NewDocumentPageInit(id)]
    /\ newTemplatePage' = [newTemplatePage EXCEPT ![p] = NewTemplatePageInit]
    /\ useTemplatePage' = [useTemplatePage EXCEPT ![p] = UseTemplatePageInit(id)]
    /\ UNCHANGED <<dbVars, docOthers>>

KnownCaseIds == {c.id : c \in cases} \cup {0}

\* a store holding the stored cases with the given ids, and their child rows
SeedInit(ids, m) ==
    LET cs == {StoredCase(i) : i \in ids}
    IN /\ users = Users0
       /\ parties = Parties0
       /\ cases = cs
       /\ security_interests = StoredInterests(cs)
       /\ documents = StoredDocuments(cs)
       /\ deadlines = StoredDeadlines(cs, m)
       /\ financials = StoredFinancials(cs)
       /\ clock = 100
       /\ now = Now0

(* Spec: the whole application, one browser session at a time, every request
   succeeding: reads and writes of members of two firms and of a principal
   without a users row *)
Init ==
    /\ SeedInit(SeedIds, 1)
    /\ PagesInit
    /\ NamesIdle

Next ==
    \E p \in Principals :
        \/ \E r \in Routes, id \in KnownCaseIds : Open(p, r, id)
        \/ Close(p)
        \/ DashboardNext(p)
        \/ CasesPageNext(p)
        \/ ListsNext(p)
        \/ NewCaseLoad(p)
        \/ \E data \in FormData(p, {foreclosure}, {"active"}) : NewCaseSubmitNoFirm(p, data)
        \/ NewCaseSubmit(p, FormTypes, {"active"}, {TRUE}, 1)
        \/ CaseDetailNext(p, {TRUE})

Spec == Init /\ [][Next]_vars

(* SpecCreate: the new-case form with every value it accepts, every request
   succeeding; the page the form redirects to is loaded afterwards *)
MemberPrincipals == {"u1", "u2"}

InitCreate ==
    /\ SeedInit({}, 0)
    /\ PagesInit
    /\ NamesIdle

NextCreate ==
    \E p \in MemberPrincipals :
        \/ Open(p, "newCase", 0)
        \/ Close(p)
        \/ NewCaseLoad(p)
        \/ NewCaseSubmit(p, CaseTypes, FormStatuses, {TRUE}, MaxInserts)
        \/ DetailFetchCase(p, TRUE)
        \/ DetailFetchRelated(p, TRUE)

SpecCreate == InitCreate /\ [][NextCreate]_vars

(* SpecDelete: the case-detail page and handleDeleteCase, every request of the
   deletion failing or succeeding *)
InitDelete ==
    /\ SeedInit(SeedIds, 1)
    /\ PagesInit
    /\ NamesIdle

NextDelete ==
    \E p \in MemberPrincipals :
        \/ \E id \in KnownCaseIds : Open(p, "caseDetail", id)
        \/ Close(p)
        \/ CaseDetailNext(p, BOOLEAN)
        \/ CasesFetchFirmId(p)

SpecDelete == InitDelete /\ [][NextDelete]_vars

(* SpecDash: the dashboard over stores of every size up to the bounds *)
MaxDashCases == 8
MaxDeadlines == 4

InitDash ==
    /\ \E n \in 0..MaxDashCases, m \in 0..MaxDeadlines : SeedInit(1..n, m)
    /\ PagesInit
    /\ NamesIdle

NextDash ==
    \/ Tick
    \/ \E p \in MemberPrincipals :
        \/ Open(p, "dashboard", 0)
        \/ Close(p)
        \/ DashboardNext(p)

SpecDash == InitDash /\ [][NextDash]_vars

(* SpecList: the case list of a member of F1 over stores of every size up to the
   bound, with filters and page changes *)
MaxListCases == 28

SearchTerms == {<<>>, <<"R", "O">>}
StatusFilters == {"all", "active", "pending", "closed"}
TypeFilters == {all, foreclosure}

InitList ==
    /\ \E n \in 0..MaxListCases : SeedInit(1..n, 0)
    /\ PagesInit
    /\ NamesIdle

NextList ==
    \E p \in {"u1"} :
        \/ Open(p, "cases", 0)
        \/ CasesPageNext(p)
        \/ \E term \in SearchTerms : SetSearchTerm(p, term)
        \/ \E v \in StatusFilters : SetStatusFilter(p, v)
        \/ \E v \in TypeFilters : SetTypeFilter(p, v)
        \/ \E page \in 0..(MaxListCases \div itemsPerPage + 2) : handlePageChange(p, page)

SpecList == InitList /\ [][NextList]_vars

(* SpecShared: two colleagues at once, one reading the case list and the document
   list while the other creates and deletes cases *)
InitShared ==
    /\ SeedInit(SeedIds, 1)
    /\ PagesInit
    /\ NamesIdle

NextShared ==
    \/ \E r \in ListRoutes : Navigate("u1", r, 0)
    \/ CasesPageNext("u1")
    \/ DocsFetchFirmId("u1")
    \/ DocsCount("u1")
    \/ DocsRange("u1")
    \/ \E r \in WriteRoutes, id \in KnownCaseIds : Navigate("u3", r, id)
    \/ NewCaseLoad("u3")
    \/ NewCaseSubmit("u3", FormTypes, {"active"}, {TRUE}, 1)
    \/ CaseDetailNext("u3", {TRUE})

SpecShared == InitShared /\ [][NextShared]_vars

(* SpecStats: a member loads the dashboard while a colleague of the same firm
   creates and deletes cases *)
InitStats ==
    /\ SeedInit({1}, 0)
    /\ PagesInit
    /\ NamesIdle

NextStats ==
    \/ Open("u1", "dashboard", 0)
    \/ DashboardNext("u1")
    \/ \E r \in WriteRoutes, id \in KnownCaseIds : Navigate("u3", r, id)
    \/ NewCaseLoad("u3")
    \/ NewCaseSubmit("u3", FormTypes, {"active"}, {TRUE}, 1)
    \/ CaseDetailNext("u3", {TRUE})

SpecStats == InitStats /\ [][NextStats]_vars

(* SpecLoading: the case list opened by a member and by a principal without a
   users row; every request that was sent is answered *)
ListViewers == {"u1", "u0"}

InitLoading ==
    /\ SeedInit(SeedIds, 1)
    /\ PagesInit
    /\ NamesIdle

NextLoading ==
    \E p \in ListViewers :
        \/ Navigate(p, "cases", 0)
        \/ CasesPageNext(p)
        \/ \E term \in SearchTerms : SetSearchTerm(p, term)
        \/ \E v \in StatusFilters : SetStatusFilter(p, v)

SpecLoading ==
    /\ InitLoading
    /\ [][NextLoading]_vars
    /\ \A p \in ListViewers : WF_vars(CasesPageNext(p))

(* SpecDetail: loading the case-detail page for every case id, a missing one
   and another firm's included, every request failing or succeeding *)
MaxDetailCases == 4

InitDetail ==
    /\ \E n \in 0..MaxDetailCases : SeedInit(1..n, 1)
    /\ PagesInit
    /\ NamesIdle

NextDetail ==
    \E p \in Principals :
        \/ \E id \in KnownCaseIds : Open(p, "caseDetail", id)
        \/ Close(p)
        \/ CaseDetailLoad(p, BOOLEAN)
        \/ CasesFetchFirmId(p)

SpecDetail == InitDetail /\ [][NextDetail]_vars

(* SpecDocs: case creation, document upload, template creation and the use of
   a template, one browser session at a time *)
\* rows added to documents in one run
MaxUploads == 2

DocPagesNext(p, oks) ==
    \/ UploadFetchFirmId(p)
    \/ UploadFetchCase(p)
    \/ UploadFetchParties(p)
    \/ /\ Cardinality(documents \ StoredDocuments(cases)) < MaxUploads
       /\ \E ok \in oks : UploadSubmit(p, ok)
    \/ NewTemplateFetchFirmId(p)
    \/ NewTemplateSubmit(p)
    \/ UseTemplateFetchFirmId(p)
    \/ UseTemplateFetchTemplate(p)

KnownDocumentIds == {d.id : d \in documents} \cup {0}

InitDocs ==
    /\ SeedInit(SeedIds, 1)
    /\ PagesInit
    /\ NamesIdle

NextDocs ==
    \E p \in Principals :
        \/ /\ OthersClosed(p)
           /\ \/ \E id \in KnownCaseIds : OpenDocPage(p, "newDocument", id)
              \/ \E r \in FormRoutes : OpenDocPage(p, r, 0)
              \/ \E id \in KnownDocumentIds : OpenDocPage(p, "useTemplate", id)
        \/ OpenDocPage(p, "none", 0)
        \/ DocPagesNext(p, BOOLEAN)
        \/ NewCaseLoad(p)
        \/ NewCaseSubmit(p, {foreclosure}, {"active"}, {TRUE}, 1)
        \/ TemplatesFetchFirmId(p)

SpecDocs == InitDocs /\ [][NextDocs]_vars

(* SpecRegister: registrations from one browser, each request failing or
   succeeding *)
InitRegister ==
    /\ SeedInit(SeedIds, 1)
    /\ PagesInit
    /\ NamesIdle

NextRegister ==
    \/ \E email \in RegistrantEmails, ok \in BOOLEAN, known \in KnownAnswers :
            RegisterSignUp(email, ok, known)
    \/ \E ok \in BOOLEAN : RegisterInsertFirm(ok)
    \/ \E ok \in BOOLEAN : RegisterInsertUser(ok)
    \/ RegisterOpen

SpecRegister == InitRegister /\ [][NextRegister]_vars

(* SpecWrites: case creation and case deletion of one member, every write
   failing or succeeding *)
InitWrites ==
    /\ SeedInit(SeedIds, 1)
    /\ PagesInit
    /\ NamesIdle

NextWrites ==
    \/ \E r \in WriteRoutes, id \in KnownCaseIds : Open("u1", r, id)
    \/ Close("u1")
    \/ NewCaseLoad("u1")
    \/ NewCaseSubmit("u1", FormTypes, {"active"}, BOOLEAN, 1)
    \/ CaseDetailNext("u1", BOOLEAN)
    \/ CasesFetchFirmId("u1")

SpecWrites == InitWrites /\ [][NextWrites]_vars

(* SpecAssistant: messages sent to the assistant, with and without a selected
   case and document *)
InitAssistant ==
    /\ SeedInit(SeedIds, 1)
    /\ PagesInit
    /\ NamesIdle

NextAssistant ==
    \/ \E copy \in AssistantCopies, input \in Prompts, c \in CaseContexts,
          d \in DocumentContexts : ClickSend(copy, input, c, d)
    \/ ReplyArrives

SpecAssistant == InitAssistant /\ [][NextAssistant]_vars

(* SpecChat: the assistant page with the send button and the Enter key, the
   user typing on while a reply is pending *)
ChatPrompts == {<<" ">>, draft, review}

InitChat ==
    /\ SeedInit(SeedIds, 1)
    /\ PagesInit
    /\ NamesIdle

NextChat ==
    \/ \E input \in ChatPrompts, c \in CaseContexts, d \in DocumentContexts :
            ClickSend("page", input, c, d)
    \/ \E input \in ChatPrompts, c \in CaseContexts, d \in DocumentContexts :
            PressEnter("page", input, c, d)
    \/ ReplyArrives

SpecChat == InitChat /\ [][NextChat]_vars

(* SpecOrphans: member u1 deletes cases on the case detail page while the
   colleague u3 uploads documents to cases of the same firm; the requests of
   the two browsers interleave freely *)
InitOrphans ==
    /\ SeedInit({3}, 1)
    /\ PagesInit
    /\ NamesIdle

NextOrphans ==
    \/ \E id \in KnownCaseIds : Navigate("u1", "caseDetail", id)
    \/ CaseDetailNext("u1", BOOLEAN)
    \/ \E id \in KnownCaseIds : OpenDocPage("u3", "newDocument", id)
    \/ UploadFetchFirmId("u3")
    \/ UploadFetchCase("u3")
    \/ UploadFetchParties("u3")
    \/ /\ clock < 100 + MaxUploads
       /\ UploadSubmit("u3", TRUE)

SpecOrphans == InitOrphans /\ [][NextOrphans]_vars

(* SpecGuard: requests of every path, with and without a session, through the
   middleware; redirects are followed *)
InitGuard ==
    /\ SeedInit({}, 0)
    /\ PagesInit
    /\ NamesIdle

NextGuard ==
    \/ \E path \in RequestPaths, session \in Sessions : Request(path, session)
    \/ MiddlewareRuns
    \/ MiddlewareSkipped
    \/ FollowRedirect

SpecGuard == InitGuard /\ [][NextGuard]_vars

(* SpecNames: every admitted party record rendered at each of the four places *)
InitNames ==
    /\ SeedInit({}, 0)
    /\ PagesInit
    /\ party \in AdmittedParties
    /\ rendered = NothingRendered

NextNames ==
    \/ RenderDashboard
    \/ RenderCaseList
    \/ RenderCaseDetail
    \/ RenderNewCase

SpecNames == InitNames /\ [][NextNames]_vars

----------------------------------------------------------------------------
(* Properties *)

OwnFirmOnly(p, rows) == \A r \in rows : r.firm_id = FirmOf(p)

\* every row a page of p holds
TenantIsolationOf(p) ==
    /\ OwnFirmOnly(p, SeqToSet(dashboard[p].casesData))
    /\ OwnFirmOnly(p, dashboard[p].clientRows)
    /\ OwnFirmOnly(p, {dashboard[p].recentCases[i].row :
                            i \in 1..Len(dashboard[p].recentCases)})
    /\ OwnFirmOnly(p, SeqToSet(casesPage[p].casesData))
    /\ OwnFirmOnly(p, casesPage[p].clientRows)
    /\ OwnFirmOnly(p, documentsPage[p].cases)
    /\ OwnFirmOnly(p, {documentsPage[p].documents[i].row :
                            i \in 1..Len(documentsPage[p].documents)})
    /\ OwnFirmOnly(p, {documentsPage[p].documents[i].caseData :
                            i \in 1..Len(documentsPage[p].documents)} \ {NoCase})
    /\ OwnFirmOnly(p, templatesPage[p].templates)
    /\ OwnFirmOnly(p, newCasePage[p].clients)
    /\ OwnFirmOnly(p, newCasePage[p].opposingParties)
    /\ OwnFirmOnly(p, {newCasePage[p].newCase} \ {NoCase})
    /\ OwnFirmOnly(p, {caseDetail[p].caseData} \ {NoCase})
    /\ OwnFirmOnly(p, {caseDetail[p].client, caseDetail[p].opposingParty} \ {NoParty})
    /\ OwnFirmOnly(p, caseDetail[p].securityInterests)
    /\ OwnFirmOnly(p, caseDetail[p].documents)
    /\ OwnFirmOnly(p, caseDetail[p].deadlines)
    /\ OwnFirmOnly(p, caseDetail[p].financials)

\* C1: tenant isolation. After any sequence of reads and writes, every row of
\* parties, cases, documents, deadlines, financials or security_interests that
\* a page of a principal holds belongs to that principal's firm; this covers
\* the lookups by id that carry no firm_id filter.
C1_TenantIsolation == \A p \in Principals : TenantIsolationOf(p)

\* C1 witness: after a case was created through the form, a member's case-detail
\* page holds case, party and child rows fetched by id only, while the same
\* tables hold rows of the other firm
C1_Witness ==
    \E p \in MemberPrincipals :
        /\ clock > 100
        /\ caseDetail[p].pc = "idle"
        /\ caseDetail[p].client # NoParty
        /\ caseDetail[p].documents # {}
        /\ caseDetail[p].deadlines # {}
        /\ caseDetail[p].financials # {}
        /\ caseDetail[p].securityInterests # {}
        /\ \E c \in cases : c.firm_id # FirmOf(p)
        /\ \E d \in documents : d.firm_id # FirmOf(p)
        /\ \E d \in deadlines : d.firm_id # FirmOf(p)

\* a case whose creation is still between its two inserts
CreationInFlight(c) ==
    \E p \in Principals :
        newCasePage[p].pc = "interest" /\ newCasePage[p].newCase.id = c.id

InterestsOf(c) == {r \in security_interests : r.case_id = c.id}

ChildRowsOf(id) ==
    {r \in security_interests : r.case_id = id} \cup {r \in documents : r.case_id = id}
        \cup {r \in deadlines : r.case_id = id} \cup {r \in financials : r.case_id = id}

\* C3: cascade completeness. Once handleDeleteCase has deleted a case, no
\* security_interests, documents, deadlines or financials row has its case_id,
\* and the cases row is absent.
C3_CascadeComplete ==
    \A id \in deletedCases :
        /\ ChildRowsOf(id) = {}
        /\ \A c \in cases : c.id # id

\* C3 witness: a stored case that had rows in all four child tables was deleted
C3_Witness == 3 \in deletedCases

\* C4: deletion ordering. The delete of the cases row is issued only when none
\* of the four child deletes has failed or is still pending, and all child rows
\* of the case are gone.
C4_DeleteOrdering ==
    \A p \in Principals :
        caseDetail[p].pc = "case" =>
            /\ caseDetail[p].pendingDeletes = {}
            /\ caseDetail[p].failedDeletes = {}
            /\ ChildRowsOf(caseDetail[p].caseData.id) = {}

\* C5: a principal without a users row gets nothing: the dashboard shows five
\* zero counts and no recent cases, the case, document and template lists show
\* no rows, and the new-case submit handler requests no insert.
C5_NoFirmNoData ==
    \A p \in Principals :
        FirmOf(p) = NullId =>
            /\ \A key \in StatKeys : dashboard[p].stats[key] = 0
            /\ dashboard[p].recentCases = <<>>
            /\ casesPage[p].cases = <<>>
            /\ documentsPage[p].documents = <<>>
            /\ templatesPage[p].templates = {}
            /\ newCasePage[p].newCase = NoCase
            /\ newCasePage[p].outcome \in {"none", "returned"}

\* C5 witness: the principal without a users row has submitted the new-case
\* form while stored rows of both firms exist
C5_Witness ==
    /\ FirmOf("u0") = NullId
    /\ newCasePage["u0"].outcome = "returned"
    /\ \E c \in cases : c.firm_id = "F1"
    /\ \E c \in cases : c.firm_id = "F2"

\* deadlines of p's firm due within seven days of the moment the counts were requested
DueWithinSevenDays(p) ==
    {d \in deadlines :
        /\ d.firm_id = FirmOf(p)
        /\ dashboard[p].issuedAt <= d.due_date
        /\ d.due_date <= dashboard[p].issuedAt + SevenDays}

DashboardShown(p) == dashboard[p].pc = "done" /\ dashboard[p].firmId # NullId

\* C6: the dashboard's upcomingDeadlines equals the number of deadlines of the
\* caller's firm with now <= due_date <= now + 7 days, the lower end included,
\* whatever their status; deadlines due earlier or later are not counted.
C6_UpcomingDeadlines ==
    \A p \in Principals :
        DashboardShown(p) =>
            dashboard[p].stats.upcomingDeadlines = Cardinality(DueWithinSevenDays(p))

\* C6 witness: a dashboard showing a positive count over a firm that has a
\* deadline due exactly now, a completed one inside the window, one overdue and
\* one due after the window
C6_Witness ==
    \E p \in MemberPrincipals :
        /\ DashboardShown(p)
        /\ dashboard[p].stats.upcomingDeadlines > 0
        /\ \E d \in DueWithinSevenDays(p) : d.due_date = dashboard[p].issuedAt
        /\ \E d \in DueWithinSevenDays(p) : d.status = "Completed"
        /\ \E d \in deadlines :
                d.firm_id = FirmOf(p) /\ d.due_date < dashboard[p].issuedAt
        /\ \E d \in deadlines :
                d.firm_id = FirmOf(p) /\ d.due_date > dashboard[p].issuedAt + SevenDays

OfFirm(p, table) == {r \in table : r.firm_id = FirmOf(p)}

\* C7: for a fixed store, totalCases, activeCases, totalParties and
\* totalDocuments on the dashboard are exactly the numbers of cases, cases with
\* status 'active', parties and documents of the caller's firm; rows of other
\* firms do not count.
C7_ExactCounts ==
    \A p \in Principals :
        DashboardShown(p) =>
            /\ dashboard[p].stats.totalCases = Cardinality(OfFirm(p, cases))
            /\ dashboard[p].stats.activeCases =
                    Cardinality({c \in OfFirm(p, cases) : c.status = "active"})
            /\ dashboard[p].stats.totalParties = Cardinality(OfFirm(p, parties))
            /\ dashboard[p].stats.totalDocuments = Cardinality(OfFirm(p, documents))

\* C7 witness: a dashboard over a firm with active and other cases, while every
\* counted table also holds rows of the other firm
C7_Witness ==
    \E p \in MemberPrincipals :
        /\ DashboardShown(p)
        /\ dashboard[p].stats.totalCases > dashboard[p].stats.activeCases
        /\ dashboard[p].stats.activeCases > 0
        /\ dashboard[p].stats.totalDocuments > 0
        /\ OfFirm(p, cases) # cases
        /\ OfFirm(p, parties) # parties
        /\ OfFirm(p, documents) # documents

Min(a, b) == IF a < b THEN a ELSE b

RecentRows(p) == [i \in 1..Len(dashboard[p].recentCases) |-> dashboard[p].recentCases[i].row]

\* C8: the recent-cases list holds the at most five most recently created cases
\* of the caller's firm, newest first, each with its own client's name, in
\* whatever order the concurrent client lookups completed.
C8_RecentCasesOrder ==
    \A p \in Principals :
        (dashboard[p].pc \in {"stats", "done"} /\ dashboard[p].firmId # NullId) =>
            LET rows == RecentRows(p)
                firm == OfFirm(p, cases)
            IN /\ Len(rows) = Min(RecentLimit, Cardinality(firm))
               /\ \A i \in 1..Len(rows) : rows[i] \in firm
               /\ \A i, j \in 1..Len(rows) :
                      i < j => rows[i] # rows[j] /\ rows[i].created_at >= rows[j].created_at
               /\ \A c \in firm \ SeqToSet(rows) :
                      \A i \in 1..Len(rows) : c.created_at <= rows[i].created_at
               /\ \A i \in 1..Len(rows) :
                      dashboard[p].recentCases[i].client_name =
                          DashboardClientName(PartyById(p, rows[i].client_id))

\* C8 witness: five recent cases out of more than five, joined after the client
\* lookups completed in another order than they were started
C8_Witness ==
    \E p \in MemberPrincipals :
        /\ dashboard[p].pc = "done"
        /\ Len(dashboard[p].recentCases) = RecentLimit
        /\ Cardinality(OfFirm(p, cases)) > RecentLimit
        /\ dashboard[p].done = <<5, 3, 1, 2, 4>>

TextOrEmpty(t) == IF t = NullText THEN <<>> ELSE t

\* the display name of a party: the organization name when there is one, else
\* the trimmed "first last", else the fallback
ExpectedDisplayName(pt, fallback) ==
    IF TextOrEmpty(pt.organization_name) # <<>> THEN pt.organization_name
    ELSE LET joined == Trim(TextOrEmpty(pt.first_name) \o <<" ">>
                               \o TextOrEmpty(pt.last_name))
         IN IF joined # <<>> THEN joined ELSE fallback

FallbackAt(site) == IF site \in {"dashboard", "cases"} THEN UnknownClient ELSE Unknown

\* C9: display-name resolution. For every party record the schema admits, each
\* of the four places that render a party yields organization_name when it is
\* non-empty, otherwise first_name and last_name joined by one space and
\* trimmed, otherwise the fallback literal; never a stringified missing value
\* such as "null null".
C9_DisplayName ==
    rendered.site # "none" =>
        rendered.text = ExpectedDisplayName(party, FallbackAt(rendered.site))

\* rows matching the filters the case list shows
MatchingShown(p) == CasesMatching(p, casesPage[p])

\* matching rows created after c
NewerMatching(p, c) == {q \in MatchingShown(p) : q.created_at > c.created_at}

CaseListFetched(p) == casesPage[p].pc \in {"names", "idle"} /\ casesPage[p].firmId # NullId

\* C10: with page size 10 and N rows matching the current filter, page p of the
\* case list holds the rows at positions (p-1)*10 .. p*10-1 of the matching rows
\* ordered by creation time descending; page ceil(N/10)+1 holds no rows and
\* page 1 with N >= 10 holds exactly 10 rows.
C10_Pagination ==
    \A p \in Principals :
        CaseListFetched(p) =>
            LET N == Cardinality(MatchingShown(p))
                page == casesPage[p].currentPage
                rows == casesPage[p].casesData
                from == (page - 1) * 10
            IN /\ Len(rows) = IF N <= from THEN 0 ELSE Min(10, N - from)
               /\ \A i \in 1..Len(rows) :
                      /\ rows[i] \in MatchingShown(p)
                      /\ Cardinality(NewerMatching(p, rows[i])) = from + i - 1
               /\ page = Ceil(N, 10) + 1 => rows = <<>>
               /\ (page = 1 /\ N >= 10) => Len(rows) = 10

\* C10 witness: after a filter change on a later page the list shows page
\* ceil(N/10)+1 of a non-empty result
C10_Witness ==
    /\ casesPage["u1"].pc = "idle"
    /\ casesPage["u1"].firmId # NullId
    /\ Cardinality(MatchingShown("u1")) > 0
    /\ casesPage["u1"].currentPage = Ceil(Cardinality(MatchingShown("u1")), 10) + 1
    /\ casesPage["u1"].cases = <<>>

\* C11: in every fetch of the case list and of the document list the count
\* behind totalPages is taken under the same predicate as the page of rows, so
\* that totalPages = ceil(M/10), M being the number of rows matching that
\* predicate when the page was read.
C11_CountMatchesPage ==
    \A p \in Principals :
        /\ (casesPage[p].pc \in {"names", "idle"} /\ casesPage[p].firmId # NullId) =>
                casesPage[p].totalPages = Ceil(casesPage[p].matched, itemsPerPage)
        /\ (documentsPage[p].pc = "idle" /\ documentsPage[p].firmId # NullId) =>
                documentsPage[p].totalPages = Ceil(documentsPage[p].matched, itemsPerPage)

\* the first segment of a path: the text between the leading "/" and the next one
RECURSIVE UpToSlash(_)
UpToSlash(s) ==
    IF s = <<>> \/ Head(s) = "/" THEN <<>> ELSE <<Head(s)>> \o UpToSlash(Tail(s))

FirstSegment(path) == IF path = <<>> THEN <<>> ELSE UpToSlash(Tail(path))

\* the views behind the guard and the views for signing in, by first segment
ProtectedView(path) == \E prefix \in ProtectedPrefixes : FirstSegment(path) = Tail(prefix)
AuthView(path) == \E prefix \in AuthPrefixes : FirstSegment(path) = Tail(prefix)

Answered == response.kind \in {"next", "redirect"}

NothingLoaded(st) ==
    /\ st.caseData = NoCase
    /\ st.client = NoParty /\ st.opposingParty = NoParty
    /\ st.securityInterests = {} /\ st.documents = {}
    /\ st.deadlines = {} /\ st.financials = {}

\* C13: whenever loading the case-detail view fails, the view navigates to the
\* case list and holds no partially loaded case state: caseData is null
\* whenever the redirect to /cases is taken, and a view that stays past the
\* case lookup holds the case asked for.
C13_DetailRedirect ==
    \A p \in Principals :
        route[p] = "caseDetail" =>
            /\ caseDetail[p].pc = "redirect" => NothingLoaded(caseDetail[p])
            /\ caseDetail[p].pc \in {"related", "idle"} =>
                    /\ caseDetail[p].caseData # NoCase
                    /\ caseDetail[p].caseData.id = caseDetail[p].caseId

\* C13 witness: a member asked for a case of the other firm; the lookup
\* returned no row and the redirect is under way
C13_Witness ==
    \E p \in MemberPrincipals :
        /\ route[p] = "caseDetail"
        /\ caseDetail[p].pc = "redirect"
        /\ \E c \in cases : c.id = caseDetail[p].caseId /\ c.firm_id # FirmOf(p)

\* C14: the placeholder security interest created with a foreclosure case has
\* the case's firm_id, the new case's id, type 'Mortgage', amount 0, the
\* case's client as lender, and as borrower the opposing party when one was
\* given and the client otherwise.
C14_PlaceholderFields ==
    \A r \in security_interests :
        \E c \in cases :
            /\ c.id = r.case_id
            /\ r.firm_id = c.firm_id
            /\ r.type = Mortgage
            /\ r.amount = 0
            /\ r.lender_id = c.client_id
            /\ r.borrower_id = IF c.opposing_party_id # NullId
                               THEN c.opposing_party_id ELSE c.client_id

\* C14 witness: placeholders exist for a case with an opposing party and for a
\* case without one
C14_Witness ==
    /\ \E r \in security_interests : r.borrower_id # r.lender_id
    /\ \E r \in security_interests : r.borrower_id = r.lender_id

ReferencedCaseOf(r) == {c \in cases : c.id = r.case_id}

C19_UploadDegrades ==
    \A p \in Principals :
        (route[p] = "newDocument" /\ newDocumentPage[p].firmId # NullId
            /\ newDocumentPage[p].pc \in {"idle", "stopped"}) =>
                /\ newDocumentPage[p].error # "unhandled"
                /\ ~UploadShowsLoading(newDocumentPage[p])

\* C16: every case whose status is 'closed' has a non-null closure_date, a case
\* created with status 'closed' through the new-case form included.
C16_ClosedHasClosureDate ==
    \A c \in cases : c.status = "closed" => c.closure_date # NullId

\* C17: a registration that ends in the redirect to the confirmation page has
\* created exactly one firms row, with subscription_tier 'basic' and the
\* registrant's email, and exactly one users row, whose id is the id of the
\* signed-up principal, whose role is 'admin' and whose firm_id is the id of
\* that new firm.
C17_Registration ==
    registerPage.pc = "confirmation" =>
        \E f \in firms, u \in users :
            /\ firms \ registerPage.firmsBefore = {f}
            /\ users \ registerPage.usersBefore = {u}
            /\ f.subscription_tier = "basic"
            /\ f.email = registerPage.email
            /\ u.id = registerPage.authId
            /\ \E a \in authUsers : a.id = u.id /\ a.email = registerPage.email
            /\ u.role = "admin"
            /\ u.firm_id = f.id

\* C17 witness: a registration completed after an earlier attempt had failed
C17_Witness ==
    /\ registerPage.pc = "confirmation"
    /\ Cardinality(authUsers) > Cardinality(AuthUsers0) + 1

\* the last request of onSubmit for a foreclosure case, and of handleDeleteCase,
\* has returned to p
InterestReturned(p) ==
    /\ route[p] = "newCase"
    /\ newCasePage[p].pc = "interest"
    /\ <<route[p], newCasePage[p]>>' # <<route[p], newCasePage[p]>>

DeleteReturned(p) ==
    /\ route[p] = "caseDetail"
    /\ caseDetail[p].pc = "case"
    /\ <<route[p], caseDetail[p]>>' # <<route[p], caseDetail[p]>>

\* C18: every failed write of case creation and case deletion (the cases insert,
\* the placeholder security_interests insert, each of the four child deletes,
\* the cases delete) is surfaced as an error message and is not followed by the
\* success navigation: the form leaves for the page of a new case only when the
\* case was stored; a placeholder that was not stored, and a child delete that
\* failed, end in the alert on the page they were issued from.
C18_FailedWritesSurfaced ==
    [][\A p \in Principals :
        /\ (route[p] = "newCase" /\ route'[p] = "caseDetail"
                /\ caseDetail'[p].caseId \notin KnownCaseIds) => cases' # cases
        /\ (InterestReturned(p) /\ security_interests' = security_interests) =>
                (route'[p] = "newCase" /\ newCasePage'[p].outcome = "alert")
        /\ (DeleteReturned(p)
                /\ (caseDetail[p].failedDeletes # {} \/ caseDetail[p].caseData.id \in
                        {c.id : c \in cases'})) =>
                (route'[p] = "caseDetail" /\ caseDetail'[p].outcome = "alert")]_vars

\* the reply of the first matching rule of the keyword table
FirstMatchingRule(prompt) ==
    LET s == toLowerCase(prompt)
    IN IF includes(s, draft) THEN "draft"
       ELSE IF includes(s, analyze) \/ includes(s, review) THEN "analysis"
       ELSE IF includes(s, summarize) THEN "summary"
       ELSE IF includes(s, deadline) \/ includes(s, timeline) THEN "deadlines"
       ELSE "default"

\* C20: fetchAIResponse returns, for every prompt, the reply of the first
\* matching rule in the order "draft" -> draft reply, "analyze" or "review" ->
\* analysis reply, "summarize" -> summary reply, "deadline" or "timeline" ->
\* deadlines reply, otherwise the default; matching ignores case, and the reply
\* does not depend on the case or document context.
C20_KeywordTable ==
    (assistant.pc = "idle" /\ assistant.reply # "none") =>
        assistant.reply = FirstMatchingRule(assistant.prompt)

\* C21: case creation is not atomic. When the placeholder security_interests
\* insert fails after the cases insert succeeded, the new cases row is kept: the
\* step in which the placeholder insert returns never removes a case.
C21_NoRollback ==
    [][\A p \in Principals : InterestReturned(p) => cases' = cases]_vars

\* C21 witness: a foreclosure case created through the form is stored with no
\* security interest, its creation over
C21_Witness ==
    \E c \in cases :
        /\ c.id \notin SeedIds
        /\ c.case_type = foreclosure
        /\ InterestsOf(c) = {}
        /\ ~CreationInFlight(c)

AllChildRows == security_interests \cup documents \cup deadlines \cup financials

\* C22: in every interleaving of a case deletion by one user with the insert of
\* a child row for the same case by another user of the same firm, no child row
\* has the case_id of an absent cases row.
C22_NoOrphans ==
    \A r \in AllChildRows : \E c \in cases : c.id = r.case_id

\* C22 witness: the colleague had the upload form of a case open, the case was
\* deleted meanwhile, and the upload was then submitted and refused
C22_Witness ==
    /\ newDocumentPage["u3"].caseId \in deletedCases
    /\ newDocumentPage["u3"].caseData # NoCase
    /\ newDocumentPage["u3"].outcome = "alert"

\* C23: a registration attempt that fails at any of its three steps leaves no
\* partial records: afterwards no firms row created by it is without a users
\* row, and no principal that signed up through the form is without a users row.
C23_NoPartialRegistration ==
    (registerPage.pc = "idle" /\ registerPage.error # "none") =>
        /\ \A f \in firms \ registerPage.firmsBefore : \E u \in users : u.firm_id = f.id
        /\ \A a \in authUsers : a.id \in NewAuthIds => \E u \in users : u.id = a.id

\* C24: in the case list, after any sequence of search-term changes, filter
\* changes and page-button clicks, currentPage lies within
\* 1 .. max(1, totalPages) of the most recent fetch, and a non-empty filtered
\* result is never displayed as an empty list.
C24_PageWithinRange ==
    \A p \in Principals :
        (casesPage[p].pc = "idle" /\ casesPage[p].firmId # NullId) =>
            /\ casesPage[p].currentPage >= 1
            /\ casesPage[p].currentPage <= 1 \/ casesPage[p].currentPage <= casesPage[p].totalPages
            /\ Cardinality(MatchingShown(p)) > 0 => casesPage[p].cases # <<>>

\* the pagination footer is rendered inside the table branch (not loading,
\* at least one row) when totalPages > 1
FooterShown(st, rows) == ~st.isLoading /\ Len(rows) > 0 /\ st.totalPages > 1

\* Showing {(currentPage - 1) * itemsPerPage + 1}
FooterFrom(currentPage) == (currentPage - 1) * itemsPerPage + 1

\* to {Math.min(currentPage * itemsPerPage, cases.length)}; cases holds the
\* rows of the current page only
FooterTo(currentPage, rows) == Min(currentPage * itemsPerPage, Len(rows))

\* C25: in the pagination footer of the case list and of the document list, on
\* every page that shows at least one row, the displayed range end is at least
\* the displayed range start and equals (currentPage - 1) * 10 + the number of
\* rows on the page.
C25_FooterRange ==
    \A p \in Principals :
        /\ (casesPage[p].pc = "idle" /\ FooterShown(casesPage[p], casesPage[p].cases)) =>
              LET page == casesPage[p].currentPage
                  rows == casesPage[p].cases
              IN /\ FooterTo(page, rows) >= FooterFrom(page)
                 /\ FooterTo(page, rows) = (page - 1) * 10 + Len(rows)
        /\ (documentsPage[p].pc = "idle"
                /\ FooterShown(documentsPage[p], documentsPage[p].documents)) =>
              LET page == documentsPage[p].currentPage
                  rows == documentsPage[p].documents
              IN /\ FooterTo(page, rows) >= FooterFrom(page)
                 /\ FooterTo(page, rows) = (page - 1) * 10 + Len(rows)

\* the href of every entry of the sidebar's navigation list
navigation ==
    {<<"/", "d", "a", "s", "h", "b", "o", "a", "r", "d">>,
     <<"/", "c", "a", "s", "e", "s">>,
     <<"/", "p", "a", "r", "t", "i", "e", "s">>,
     <<"/", "d", "o", "c", "u", "m", "e", "n", "t", "s">>,
     <<"/", "d", "e", "a", "d", "l", "i", "n", "e", "s">>,
     <<"/", "f", "i", "n", "a", "n", "c", "i", "a", "l", "s">>,
     <<"/", "s", "e", "t", "t", "i", "n", "g", "s">>}

\* a sidebar target or a sub-path of one
SidebarView(path) == \E href \in navigation : FirstSegment(path) = Tail(href)

\* C26: every navigation target of the sidebar is a protected route of the
\* middleware: a request without a session to one of them, or to a sub-path of
\* one, is redirected to /login.
C26_SidebarProtected ==
    (response.kind \in {"next", "redirect", "unguarded"}
        /\ request.session = NullId /\ SidebarView(request.path)) =>
            response = [kind |-> "redirect", to |-> loginPath]

\* C27: for every request path and either session state, held fixed, following
\* the middleware's redirects ends after at most one redirect: /login is not
\* redirected again for a request without a session, and /dashboard is not
\* redirected again for a request with a session.
C27_NoRedirectLoop ==
    /\ request.hops <= 1
    /\ response.kind = "redirect" =>
          /\ request.hops = 0
          /\ response.to = loginPath => request.session = NullId
          /\ response.to = dashboardPath => request.session # NullId
          /\ middleware([request EXCEPT !.path = response.to]).kind = "next"
    /\ (request.hops = 1 /\ response.kind # "pending") => response.kind = "next"

\* C27 witness: a request without a session was redirected to /login, the
\* browser followed the redirect and the login view was served
C27_Witness ==
    /\ request.hops = 1
    /\ request.session = NullId
    /\ request.path = loginPath
    /\ response.kind = "next"

\* C28: the dashboard statistics on display satisfy activeCases <= totalCases,
\* also when colleagues insert or delete cases of the firm while the five count
\* queries are in flight.
C28_ActiveWithinTotal ==
    \A p \in Principals :
        DashboardShown(p) => dashboard[p].stats.activeCases <= dashboard[p].stats.totalCases

\* C29: for every principal, one for whom no firm_id can be resolved included,
\* the case list eventually leaves its loading state: isLoading, which starts
\* true, eventually becomes false.
C29_LoadingEnds ==
    \A p \in ListViewers : [](route[p] = "cases" => <>(~casesPage[p].isLoading))

\* C30: in the assistant chat, while a request is pending no second request
\* can be started, by the send button or by the Enter key: at most one
\* fetchAIResponse call is in flight at any time, and isLoading is true exactly
\* while a call is in flight.
C30_SingleFlight ==
    /\ Len(assistant.inFlight) <= 1
    /\ assistant.isLoading <=> assistant.inFlight # <<>>

====
